---- MODULE Spec2Model ----
(***************************************************************************)
(* Model of guardian/master-to-main: the GitHub class (utils/github.ts,    *)
(* the revision with the execute / guardian / issues flags) that renames a *)
(* branch of a GitHub repository through a chain of promise steps, and the *)
(* branch-protection transformation inside updateBranchProtection.         *)
(*                                                                         *)
(* The remote repository (branches, default branch, protection, pull       *)
(* requests, issues) is part of the state; every octokit call is recorded  *)
(* in `calls`, every spinner / logger.success line in `report`.            *)
(***************************************************************************)
EXTENDS Integers, Sequences, FiniteSets, TLC

VARIABLES
    \* the repository argument of the command, and the owner and repo the
    \* GitHub object is constructed with
    repository, owner, repo,
    \* configuration (GitHub constructor)
    oldBranchName, newBranchName, force, execute, guardian, issues,
    \* GitHub instance state and position in the promise chain of run()
    defaultBranch, pc, response, page,
    \* remote repository state
    branches, remoteDefault, protection, putProtection, prBase, createdIssues,
    \* outcomes of remote reads, fixed when first read
    repoAccess, permission,
    \* observations of the run
    calls, report, started, result, caught, failedStep, errorLogged,
    initial, answer, banner, prsAtEntry, concurrent, faulted,
    \* how the confirmation was put to the operator, and how the process ends
    prompt, exitStatus,
    \* input and output of the protection transformation on its own
    tRule, tPayload,
    \* the Logger: its verbose flag, its spinner, the calls of its log
    \* callback, and the last method called on it
    verbose, spinner, logged, lastLog,
    \* what the remote and the operator answered in this run, and what an
    \* earlier dry run on the same repository saw
    responses, dry

vars == <<repository, owner, repo,
          oldBranchName, newBranchName, force, execute, guardian, issues,
          initial, defaultBranch, pc, response, page,
          branches, remoteDefault, protection, putProtection, prBase,
          createdIssues, repoAccess, permission,
          calls, report, started, result, caught, failedStep, errorLogged,
          answer, banner, prsAtEntry, concurrent, faulted,
          prompt, exitStatus, tRule, tPayload,
          verbose, spinner, logged, lastLog,
          responses, dry>>

argVars == <<repository, owner, repo>>
configVars == <<argVars, oldBranchName, newBranchName, force, execute,
                guardian, issues, initial>>
loopVars == <<response, page>>
remoteVars == <<branches, remoteDefault, protection, putProtection, prBase,
                createdIssues>>
transformVars == <<tRule, tPayload>>
loggerVars == <<verbose, spinner, logged, lastLog>>
twinVars == <<responses, dry>>

(***************************************************************************)
(* Bounds                                                                  *)
(***************************************************************************)
MaxPRs == 3        \* pull request numbers are 1..MaxPRs
PageSize == 2      \* results per page of pulls.list

(***************************************************************************)
(* JavaScript values that the transformation distinguishes                 *)
(***************************************************************************)
JsUndefined == [t |-> "undefined"]
JsNull == [t |-> "null"]
JsNum(n) == [t |-> "number", v |-> n]
JsBool(b) == [t |-> "boolean", v |-> b]

\* o.k : a missing property reads as undefined
Get(o, k) == IF k \in DOMAIN o THEN o[k] ELSE JsUndefined

\* o?.k : undefined when o is null or undefined
OptGet(o, k) == IF o \in {JsUndefined, JsNull} THEN JsUndefined ELSE Get(o, k)

\* truthiness of a value read from the response (objects are truthy)
Truthy(v) ==
    /\ v \notin {JsUndefined, JsNull}
    /\ v \notin {JsNum(0), JsBool(FALSE)}

\* a ?? b, which keeps 0
OrElse_nullish(a, b) == IF a \in {JsUndefined, JsNull} THEN b ELSE a

\* a || b
OrElse(a, b) == IF Truthy(a) THEN a ELSE b

\* delete o.k
DeleteKey(o, k) == [x \in (DOMAIN o) \ {k} |-> o[x]]

\* a map that stops after the first element
MapField_first(xs, f) == [i \in 1..(IF Len(xs) > 0 THEN 1 ELSE 0) |-> xs[i][f]]

\* xs.map((x) => x[f])
MapField(xs, f) == [i \in 1..Len(xs) |-> xs[i][f]]

\* a string value; its text is a sequence of characters
JsString(chars) == [t |-> "string", v |-> chars]

\* s.split('/') on the characters of s
RECURSIVE Split(_)
Split(s) ==
    IF s = <<>>
    THEN << <<>> >>
    ELSE LET rest == Split(Tail(s)) IN
         IF Head(s) = "/"
         THEN << <<>> >> \o rest
         ELSE << <<Head(s)>> \o Head(rest) >> \o Tail(rest)

\* const [.., x, ..] = parts : the i-th element, undefined when there is none
Destructure(parts, i) ==
    IF i <= Len(parts) THEN JsString(parts[i]) ELSE JsUndefined

\* !v for a string or undefined
Not(v) == v = JsUndefined \/ v = JsString(<<>>)

(***************************************************************************)
(* Branch protection as returned by repos.getBranchProtection              *)
(* (ReposGetBranchProtectionResponseData plus required_signatures).        *)
(* Optional properties are keys that may be missing from the record.       *)
(***************************************************************************)
MaxCount == 2      \* required_approving_review_count ranges over 0..MaxCount

Alice == [login |-> "alice", id |-> 1]
Bob == [login |-> "bob", id |-> 2]
Devs == [slug |-> "devs", id |-> 7]
Ops == [slug |-> "ops", id |-> 8]
Bot == [slug |-> "deploy-bot", id |-> 9]

Empty == [x \in {} |-> x]

RequiredKeys ==
    { [enforce_admins |-> [enabled |-> ea],
       required_linear_history |-> [enabled |-> f[1]],
       allow_force_pushes |-> [enabled |-> f[2]],
       allow_deletions |-> [enabled |-> f[3]]] :
         ea \in BOOLEAN,
         f \in {<<TRUE, FALSE, FALSE>>, <<FALSE, TRUE, FALSE>>,
                <<FALSE, FALSE, TRUE>>, <<TRUE, TRUE, TRUE>>} }

StatusChecksKey ==
    {Empty} \cup
    { "required_status_checks" :> [strict |-> s[1], contexts |-> s[2]] :
         s \in {<<TRUE, <<"ci", "lint">>>>, <<FALSE, <<"lint", "ci">>>>} }

DismissalKey ==
    {Empty} \cup
    { "dismissal_restrictions" :> [users |-> d[1], teams |-> d[2]] :
         d \in {<<<<>>, <<>>>>, <<<<Bob, Alice>>, <<Devs>>>>,
                <<<<Alice>>, <<Ops, Devs>>>>} }

CountKey ==
    {Empty} \cup
    { "required_approving_review_count" :> JsNum(n) : n \in 0..MaxCount }

ReviewsKey ==
    {Empty} \cup
    { "required_pull_request_reviews" :>
         ([dismiss_stale_reviews |-> b[1], require_code_owner_reviews |-> b[2]]
            @@ d @@ c) :
         b \in {<<TRUE, FALSE>>, <<FALSE, TRUE>>},
         d \in DismissalKey, c \in CountKey }

RestrictionsKey ==
    {Empty} \cup
    { "restrictions" :> [users |-> r[1], teams |-> r[2], apps |-> r[3]] :
         r \in {<<<<>>, <<>>, <<>>>>, <<<<Alice, Bob>>, <<Ops>>, <<Bot>>>>} }

SignaturesKey ==
    {Empty} \cup
    { "required_signatures" :> [enabled |-> JsBool(b)] : b \in BOOLEAN }

AllRules ==
    { q @@ sc @@ rv @@ rs @@ sg :
         q \in RequiredKeys, sc \in StatusChecksKey, rv \in ReviewsKey,
         rs \in RestrictionsKey, sg \in SignaturesKey }

(***************************************************************************)
(* updateBranchProtection: the object literal `newProtection`              *)
(***************************************************************************)
\* the enabled flag copied as it is
enforceAdmins_copied(p) == JsBool(p.enforce_admins.enabled)

\* `p.enforce_admins.enabled ? true : null`
enforceAdmins(p) ==
    IF p.enforce_admins.enabled THEN JsBool(TRUE) ELSE JsNull

\* a status-check block that is always there, empty when the rule has none
requiredStatusChecks_always(p) ==
    LET sc == Get(p, "required_status_checks") IN
    IF Truthy(sc)
    THEN [strict |-> sc.strict, contexts |-> sc.contexts]
    ELSE [strict |-> FALSE, contexts |-> <<>>]

\* `p.required_status_checks ? { strict, contexts } : null`
requiredStatusChecks(p) ==
    LET sc == Get(p, "required_status_checks") IN
    IF Truthy(sc)
    THEN [strict |-> sc.strict, contexts |-> sc.contexts]
    ELSE JsNull

\* a push-restriction block whose apps are read from the teams
pushRestrictions_appsFromTeams(p) ==
    LET rs == Get(p, "restrictions") IN
    IF Truthy(rs)
    THEN [users |-> MapField(rs.users, "login"),
          teams |-> MapField(rs.teams, "slug"),
          apps |-> MapField(rs.teams, "slug")]
    ELSE JsNull

\* `p.restrictions ? { users, teams, apps } : null`
pushRestrictions(p) ==
    LET rs == Get(p, "restrictions") IN
    IF Truthy(rs)
    THEN [users |-> MapField(rs.users, "login"),
          teams |-> MapField(rs.teams, "slug"),
          apps |-> MapField(rs.apps, "slug")]
    ELSE JsNull

\* a signature requirement that reads as false when the rule has none
requiredSignatures_orFalse(p) ==
    OrElse_nullish(OptGet(Get(p, "required_signatures"), "enabled"),
                   JsBool(FALSE))

\* `p.required_signatures?.enabled`
requiredSignatures(p) == OptGet(Get(p, "required_signatures"), "enabled")

newProtectionLiteral(p) ==
    LET rv == Get(p, "required_pull_request_reviews")
        dr == Get(rv, "dismissal_restrictions")
    IN  [required_status_checks |-> requiredStatusChecks(p),
         enforce_admins |-> enforceAdmins(p),
         required_pull_request_reviews |->
            IF Truthy(rv)
            THEN [dismissal_restrictions |->
                     IF Truthy(dr)
                     THEN [users |-> MapField(dr.users, "login"),
                           teams |-> MapField(dr.teams, "slug")]
                     ELSE JsUndefined,
                  dismiss_stale_reviews |-> rv.dismiss_stale_reviews,
                  require_code_owner_reviews |-> rv.require_code_owner_reviews,
                  required_approving_review_count |->
                     OrElse(Get(rv, "required_approving_review_count"),
                            JsNum(1))]
            ELSE JsNull,
         restrictions |-> pushRestrictions(p),
         required_signatures |-> requiredSignatures(p),
         required_linear_history |-> p.required_linear_history.enabled,
         allow_force_pushes |-> p.allow_force_pushes.enabled,
         allow_deletions |-> p.allow_deletions.enabled]

\* what reading a property of undefined or null throws
TypeError ==
    [name |-> "TypeError",
     message |-> <<"Cannot read properties of undefined">>]

\* the test written without `?.`, as the earlier revisions have it:
\* `!p.required_pull_request_reviews.dismissal_restrictions` throws when the
\* rule has no review block
deleteDismissalRestrictions_unguarded(p, np) ==
    IF Get(p, "required_pull_request_reviews") \in {JsUndefined, JsNull}
    THEN TypeError
    ELSE IF ~Truthy(Get(p.required_pull_request_reviews,
                        "dismissal_restrictions"))
         THEN [np EXCEPT !.required_pull_request_reviews =
                    DeleteKey(@, "dismissal_restrictions")]
         ELSE np

\* the literal sent as it is, with its `dismissal_restrictions: undefined`
deleteDismissalRestrictions_skipped(p, np) == np

\* "This key needs to not be in the object at all if not required"
deleteDismissalRestrictions(p, np) ==
    IF ~Truthy(OptGet(Get(p, "required_pull_request_reviews"),
                      "dismissal_restrictions"))
    THEN IF np.required_pull_request_reviews \in {JsUndefined, JsNull}
         THEN np
         ELSE [np EXCEPT !.required_pull_request_reviews =
                    DeleteKey(@, "dismissal_restrictions")]
    ELSE np

\* the payload handed to repos.updateBranchProtection
newProtection(p) == deleteDismissalRestrictions(p, newProtectionLiteral(p))

NoRule == [none |-> "rule"]
NoPayload == [none |-> "payload"]

(***************************************************************************)
(* The transformation on its own, over every rule of AllRules              *)
(***************************************************************************)

transformRule ==
    /\ pc = "idle"
    /\ tRule # NoRule
    /\ tPayload = NoPayload
    /\ tPayload' = newProtection(tRule)
    /\ UNCHANGED <<configVars, remoteVars, defaultBranch, pc, loopVars,
                   repoAccess, permission, calls, report, started, result,
                   caught, failedStep, errorLogged, exitStatus, answer,
                   prompt, banner, prsAtEntry, concurrent, faulted, tRule,
                   loggerVars, twinVars>>

(***************************************************************************)
(* The remote repository                                                   *)
(***************************************************************************)
BranchNames == {"master", "main", "develop"}
NoSha == "no-such-ref"
NoPR == "no-such-pull-request"
PRNumbers == 1..MaxPRs

\* rules that the old branch may carry at the start of a run
RuleBare ==
    [enforce_admins |-> [enabled |-> FALSE],
     required_linear_history |-> [enabled |-> FALSE],
     allow_force_pushes |-> [enabled |-> FALSE],
     allow_deletions |-> [enabled |-> FALSE]]

RuleReviews ==
    [enforce_admins |-> [enabled |-> TRUE],
     required_linear_history |-> [enabled |-> TRUE],
     allow_force_pushes |-> [enabled |-> FALSE],
     allow_deletions |-> [enabled |-> FALSE],
     required_status_checks |-> [strict |-> TRUE, contexts |-> <<"ci", "lint">>],
     required_pull_request_reviews |->
        [dismiss_stale_reviews |-> TRUE, require_code_owner_reviews |-> FALSE]]

RuleFull ==
    [enforce_admins |-> [enabled |-> TRUE],
     required_linear_history |-> [enabled |-> FALSE],
     allow_force_pushes |-> [enabled |-> TRUE],
     allow_deletions |-> [enabled |-> FALSE],
     required_status_checks |-> [strict |-> FALSE, contexts |-> <<"lint", "ci">>],
     required_pull_request_reviews |->
        [dismiss_stale_reviews |-> FALSE, require_code_owner_reviews |-> TRUE,
         dismissal_restrictions |-> [users |-> <<Bob, Alice>>, teams |-> <<Devs>>],
         required_approving_review_count |-> JsNum(2)],
     restrictions |-> [users |-> <<Alice, Bob>>, teams |-> <<Ops>>, apps |-> <<Bot>>],
     required_signatures |-> [enabled |-> JsBool(TRUE)]]

PipelineRules == {RuleBare, RuleReviews, RuleFull}

\* errors: a RequestError of octokit carries a status, a plain Error does not
RequestError(status, message) == [status |-> status, message |-> message]
Error(message) == [message |-> message]
HasStatus(err, status) == "status" \in DOMAIN err /\ err.status = status
NoError == [none |-> "error"]

\* failures any request may meet whatever the repository's state
TransientFaults ==
    { RequestError(500, <<"Internal Server Error">>),
      RequestError(403, <<"API rate limit exceeded">>) }

NotProtected == RequestError(404, <<"Branch not protected">>)
TierDisallows ==
    RequestError(403,
      <<"Upgrade to GitHub Pro or make this repository public to enable this feature.">>)

Permissions == {"admin", "write", "read", "none"}

\* the repository as a whole
Remote ==
    [branches |-> branches, remoteDefault |-> remoteDefault,
     protection |-> protection, putProtection |-> putProtection,
     prBase |-> prBase, createdIssues |-> createdIssues]

OpenPRsWithBase(b) == {n \in PRNumbers : prBase[n] = b}

\* the octokit methods that change the repository
MutatingOps ==
    {"git.createRef", "repos.update", "repos.updateBranchProtection",
     "repos.deleteBranchProtection", "pulls.update", "git.deleteRef",
     "issues.create"}

(***************************************************************************)
(* The promise chain of GitHub.run                                         *)
(***************************************************************************)
\* the chain with the deletion ahead of the pull requests
Chain_deleteFirst ==
    <<"checkRepoExists", "checkOldBranchDoesExist",
      "checkNewBranchDoesNotExist", "checkAdmin", "checkWithUser",
      "createNewBranch", "updateDefaultBranch", "updateBranchProtection",
      "deleteOldBranch", "updatePullRequests", "checkRiffRaffFile",
      "checkReferencesToOldBranch", "openOtherConfigurationIssue", "then">>

\* a chain that asks for confirmation after the new branch is created
Chain_confirmLate ==
    <<"checkRepoExists", "checkOldBranchDoesExist",
      "checkNewBranchDoesNotExist", "checkAdmin", "createNewBranch",
      "checkWithUser", "updateDefaultBranch", "updateBranchProtection",
      "updatePullRequests", "deleteOldBranch", "checkRiffRaffFile",
      "checkReferencesToOldBranch", "openOtherConfigurationIssue", "then">>

\* a chain that deletes the old branch before its protection is moved
Chain_deleteBeforeProtection ==
    <<"checkRepoExists", "checkOldBranchDoesExist",
      "checkNewBranchDoesNotExist", "checkAdmin", "checkWithUser",
      "createNewBranch", "updateDefaultBranch", "deleteOldBranch",
      "updateBranchProtection", "updatePullRequests", "checkRiffRaffFile",
      "checkReferencesToOldBranch", "openOtherConfigurationIssue", "then">>

Chain ==
    <<"checkRepoExists", "checkOldBranchDoesExist",
      "checkNewBranchDoesNotExist", "checkAdmin", "checkWithUser",
      "createNewBranch", "updateDefaultBranch", "updateBranchProtection",
      "updatePullRequests", "deleteOldBranch", "checkRiffRaffFile",
      "checkReferencesToOldBranch", "openOtherConfigurationIssue", "then">>

\* the callback that .then() runs once `step` has resolved
After(step) ==
    LET i == CHOOSE j \in 1..Len(Chain) : Chain[j] = step IN Chain[i + 1]

\* the chain invokes `step` (the retarget loop stays inside one invocation)
Begin(step) ==
    IF started # <<>> /\ started[Len(started)] = step
    THEN started
    ELSE Append(started, step)

Entry(step, outcome) == [step |-> step, outcome |-> outcome]

\* `step` resolves: the chain moves on to the next callback
Resolve(step, newCalls, entries) ==
    /\ pc' = After(step)
    /\ calls' = calls \o newCalls
    /\ report' = report \o entries
    /\ started' = Begin(step)
    /\ UNCHANGED <<result, caught, failedStep, errorLogged, exitStatus>>

\* `errOrMessage.stack` of an Error
stackOf(err) == <<"\n    at ">> \o err.message

\* Logger.error for an Error: the text it hands to its _error callback
errorMessage(err) ==
    IF verbose THEN err.message \o stackOf(err) ELSE err.message

\* an _error callback that prints and returns, as a warning does
commandError_returns(message) == [message |-> message, exit |-> 0]

\* the _error callback: index.ts injects `this.error` of the command, which
\* raises the command's error; the process ends with that error's status
commandError(message) == [message |-> message, exit |-> 2]

\* a rejection that is logged without ending the chain
Reject_continue(step, err, newCalls, entries) ==
    /\ pc' = After(step)
    /\ result' = "error"
    /\ caught' = err
    /\ failedStep' = step
    /\ errorLogged' = errorMessage(err)
    /\ exitStatus' = <<commandError(errorMessage(err)).exit>>
    /\ calls' = calls \o newCalls
    /\ report' = report \o entries
    /\ started' = Begin(step)

\* a rejection after which the same step is attempted again
Reject_retry(step, err, newCalls, entries) ==
    /\ pc' = step
    /\ result' = "error"
    /\ caught' = err
    /\ failedStep' = step
    /\ errorLogged' = errorMessage(err)
    /\ exitStatus' = <<commandError(errorMessage(err)).exit>>
    /\ calls' = calls \o newCalls
    /\ report' = report \o entries
    /\ started' = Begin(step)

\* `step` rejects with err: every later .then() is skipped and the .catch()
\* of run hands err to logger.error, which passes the text to _error
Reject(step, err, newCalls, entries) ==
    /\ pc' = "done"
    /\ result' = "error"
    /\ caught' = err
    /\ failedStep' = step
    /\ errorLogged' = errorMessage(err)
    /\ exitStatus' = <<commandError(errorMessage(err)).exit>>
    /\ calls' = calls \o newCalls
    /\ report' = report \o entries
    /\ started' = Begin(step)

Call(op) == [op |-> op]
BranchCall(op, branch) == [op |-> op, branch |-> branch]

\* no answer yet, and no earlier run
NoAnswers == [k \in {} |-> k]
NoRun == [none |-> "run"]

\* the answer r to request k, added to those of this run
Answered(k, r) == responses @@ (k :> r)
OK == [status |-> 200, message |-> <<"OK">>]

\* a GitHub object constructed for the repository "o/r"
GivenRepository ==
    /\ repository = <<"o", "/", "r">>
    /\ owner = JsString(<<"o">>)
    /\ repo = JsString(<<"r">>)

\* MasterToMain.run: split the argument, refuse it through this.error when
\* `!repo`, else construct the GitHub object and call its run()
parseRepository ==
    /\ pc = "MasterToMain.run"
    /\ LET parts == Split(repository)
           o == Destructure(parts, 1)
           r == Destructure(parts, 2)
           message ==
             <<"The repository argument must be in the form ", "owner/repo">>
       IN  IF Not(r)
           THEN /\ pc' = "done"
                /\ result' = "error"
                /\ errorLogged' = message
                /\ exitStatus' = <<commandError(message).exit>>
                /\ UNCHANGED <<owner, repo>>
           ELSE /\ pc' = "run"
                /\ owner' = o
                /\ repo' = r
                /\ UNCHANGED <<result, errorLogged, exitStatus>>
    /\ UNCHANGED <<repository, oldBranchName, newBranchName, force, execute,
                   guardian, issues, initial, remoteVars, defaultBranch,
                   loopVars, repoAccess, permission, calls, report, started,
                   caught, failedStep, answer, prompt, banner, prsAtEntry,
                   concurrent, faulted, transformVars, loggerVars, twinVars>>

\* run(): the dry-run notice, then the head of the chain
run ==
    /\ pc = "run"
    /\ banner' = ~execute
    /\ pc' = "checkRepoExists"
    /\ UNCHANGED <<configVars, remoteVars, defaultBranch, loopVars, repoAccess,
                   permission, calls, report, started, result, caught,
                   failedStep, errorLogged, exitStatus, answer, prompt, prsAtEntry, concurrent,
                   faulted, transformVars, loggerVars, twinVars>>

\* a default case that forgets the cause
repoError_noCause(err) ==
    IF HasStatus(err, 404) THEN Error(<<"Repository not found">>)
    ELSE IF HasStatus(err, 401)
         THEN Error(<<"You do not have permissions to view this repository">>)
         ELSE Error(<<"An unknown error occurred">>)

\* the error checkRepoExists throws for a failed repos.get
repoError(err) ==
    IF HasStatus(err, 404) THEN Error(<<"Repository not found">>)
    ELSE IF HasStatus(err, 401)
         THEN Error(<<"You do not have permissions to view this repository">>)
         ELSE Error(<<"An unknown error occurred - ">> \o err.message)

checkRepoExists ==
    /\ pc = "checkRepoExists"
    /\ \E resp \in {RequestError(200, <<"OK">>),
                    RequestError(404, <<"Not Found">>),
                    RequestError(401, <<"Bad credentials">>)}
                      \cup TransientFaults :
         /\ repoAccess' = resp.status
         /\ responses' = Answered("repos.get", resp)
         /\ faulted' = (faulted \/ resp \in TransientFaults)
         /\ IF resp.status = 200
            THEN /\ defaultBranch' = remoteDefault
                 /\ Resolve("checkRepoExists", <<Call("repos.get")>>,
                            <<Entry("checkRepoExists", "succeeded")>>)
            ELSE /\ UNCHANGED defaultBranch
                 /\ Reject("checkRepoExists", repoError(resp),
                           <<Call("repos.get")>>,
                           <<Entry("checkRepoExists", "failed")>>)
    /\ UNCHANGED <<configVars, remoteVars, loopVars, permission, answer, prompt, banner,
                   prsAtEntry, concurrent, transformVars, loggerVars, dry>>

\* the response of repos.getBranch for a branch of the repository
getBranch(branch) ==
    IF branches[branch] # NoSha
    THEN {RequestError(200, <<"OK">>)}
    ELSE {RequestError(404, <<"Branch not found">>)}

checkOldBranchDoesExist ==
    /\ pc = "checkOldBranchDoesExist"
    /\ \E resp \in getBranch(oldBranchName) \cup TransientFaults :
         /\ faulted' = (faulted \/ resp \in TransientFaults)
         /\ responses' = Answered("repos.getBranch.old", resp)
         /\ IF resp.status = 200
            THEN Resolve("checkOldBranchDoesExist",
                         <<BranchCall("repos.getBranch", oldBranchName)>>,
                         <<Entry("checkOldBranchDoesExist", "succeeded")>>)
            ELSE Reject("checkOldBranchDoesExist", resp,
                        <<BranchCall("repos.getBranch", oldBranchName)>>,
                        <<Entry("checkOldBranchDoesExist", "failed")>>)
    /\ UNCHANGED <<configVars, remoteVars, defaultBranch, loopVars, repoAccess,
                   permission, answer, prompt, banner, prsAtEntry, concurrent,
                   transformVars, loggerVars, dry>>

\* what the try block of checkNewBranchDoesNotExist throws, if anything
newBranchThrown(resp) ==
    IF resp.status = 200
    THEN Error(<<"The ", newBranchName, " branch already exists">>)
    ELSE resp

\* a catch block that reads every error as "the branch is absent"
newBranchAbsent_anyError(err) == TRUE

\* a catch block that reads every failed request as "the branch is absent"
newBranchAbsent_anyStatus(err) == "status" \in DOMAIN err

\* the catch block: a 404 is the success path, anything else is rethrown
newBranchAbsent(err) == HasStatus(err, 404)

checkNewBranchDoesNotExist ==
    /\ pc = "checkNewBranchDoesNotExist"
    /\ \E resp \in getBranch(newBranchName) \cup TransientFaults :
         /\ faulted' = (faulted \/ resp \in TransientFaults)
         /\ responses' = Answered("repos.getBranch.new", resp)
         /\ IF newBranchAbsent(newBranchThrown(resp))
            THEN Resolve("checkNewBranchDoesNotExist",
                         <<BranchCall("repos.getBranch", newBranchName)>>,
                         <<Entry("checkNewBranchDoesNotExist", "succeeded")>>)
            ELSE Reject("checkNewBranchDoesNotExist", newBranchThrown(resp),
                        <<BranchCall("repos.getBranch", newBranchName)>>,
                        <<Entry("checkNewBranchDoesNotExist", "failed")>>)
    /\ UNCHANGED <<configVars, remoteVars, defaultBranch, loopVars, repoAccess,
                   permission, answer, prompt, banner, prsAtEntry, concurrent,
                   transformVars, loggerVars, dry>>

\* a check that lets every collaborator who can push through
isAdmin_orWrite(level) == level \in {"admin", "write"}

\* `permissions.data.permission === 'admin'`
isAdmin(level) == level = "admin"

checkAdmin ==
    /\ pc = "checkAdmin"
    /\ \/ \E f \in TransientFaults :
            /\ faulted' = TRUE
            /\ UNCHANGED permission
            /\ \/ /\ responses' = Answered("users.getAuthenticated", f)
                  /\ Reject("checkAdmin", f,
                            <<Call("users.getAuthenticated")>>,
                            <<Entry("checkAdmin", "failed")>>)
               \/ /\ responses' =
                       Answered("users.getAuthenticated", OK)
                          @@ ("repos.getCollaboratorPermissionLevel" :> f)
                  /\ Reject("checkAdmin", f,
                            <<Call("users.getAuthenticated"),
                              Call("repos.getCollaboratorPermissionLevel")>>,
                            <<Entry("checkAdmin", "failed")>>)
       \/ \E level \in Permissions :
            /\ permission' = level
            /\ responses' =
                 Answered("users.getAuthenticated", OK)
                    @@ ("repos.getCollaboratorPermissionLevel" :>
                           [permission |-> level])
            /\ UNCHANGED faulted
            /\ IF isAdmin(level)
               THEN Resolve("checkAdmin",
                            <<Call("users.getAuthenticated"),
                              Call("repos.getCollaboratorPermissionLevel")>>,
                            <<Entry("checkAdmin", "succeeded")>>)
               ELSE Reject("checkAdmin",
                           Error(<<"You must be a repo admin to complete this migration">>),
                           <<Call("users.getAuthenticated"),
                             Call("repos.getCollaboratorPermissionLevel")>>,
                           <<Entry("checkAdmin", "failed")>>)
    /\ UNCHANGED <<configVars, remoteVars, defaultBranch, loopVars, repoAccess,
                   answer, prompt, banner, prsAtEntry, concurrent, transformVars, loggerVars, dry>>

SearchPRs(count) ==
    [op |-> "search.issuesAndPullRequests", base |-> oldBranchName,
     total_count |-> count]

\* the styling of the sentence about open pull requests
prPromptStyle(count) ==
    IF count > 30 THEN "bgYellow.black"
    ELSE IF count > 50 THEN "bgRed.white"
    ELSE "plain"

NoPrompt == [via |-> "none", verb |-> "", count |-> 0, style |-> ""]

\* the message of checkWithUser and the way it reaches the operator
Prompt(via, count) ==
    [via |-> via, verb |-> IF execute THEN "will" ELSE "would",
     count |-> count, style |-> prPromptStyle(count)]

\* a confirmation that a dry run goes without
promptsUser_ifExecute == ~force /\ execute

\* a confirmation that is asked for whatever the force flag says
promptsUser_always == TRUE

\* `if (this.force)` logs the message, else the operator is asked
promptsUser == ~force

\* a prompt whose answer is not looked at
abortsOn_never(value) == FALSE

\* `if (!response.value) throw new Error('Process aborted')`
abortsOn(value) == ~value

checkWithUser ==
    /\ pc = "checkWithUser"
    /\ LET count == Cardinality(OpenPRsWithBase(oldBranchName)) IN
       \/ \E f \in TransientFaults :
            /\ faulted' = TRUE
            /\ UNCHANGED <<answer, prompt>>
            /\ responses' = Answered("search.issuesAndPullRequests", f)
            /\ Reject("checkWithUser", f,
                      <<Call("search.issuesAndPullRequests")>>,
                      <<Entry("checkWithUser", "failed")>>)
       \/ /\ ~promptsUser
          /\ prompt' = Prompt("logger.log", count)
          /\ responses' =
               Answered("search.issuesAndPullRequests", [total_count |-> count])
          /\ UNCHANGED <<faulted, answer>>
          /\ Resolve("checkWithUser", <<SearchPRs(count)>>,
                     <<Entry("checkWithUser", "succeeded")>>)
       \/ /\ promptsUser
          /\ prompt' = Prompt("prompts", count)
          /\ UNCHANGED faulted
          /\ \E value \in BOOLEAN :
               /\ answer' = IF value THEN "yes" ELSE "no"
               /\ responses' =
                    Answered("search.issuesAndPullRequests",
                             [total_count |-> count])
                       @@ ("prompts" :> [value |-> value])
               /\ IF abortsOn(value)
                  THEN Reject("checkWithUser", Error(<<"Process aborted">>),
                              <<SearchPRs(count)>>,
                              <<Entry("checkWithUser", "succeeded")>>)
                  ELSE Resolve("checkWithUser", <<SearchPRs(count)>>,
                               <<Entry("checkWithUser", "succeeded")>>)
    /\ UNCHANGED <<configVars, remoteVars, defaultBranch, loopVars, repoAccess,
                   permission, banner, prsAtEntry, concurrent, transformVars,
                   loggerVars, dry>>

GetRef(branch) == [op |-> "git.getRef", branch |-> branch]
CreateRef(branch, sha) == [op |-> "git.createRef", branch |-> branch, sha |-> sha]

\* `refs.data.object.sha` of git.getRef for heads/<old>
refSha_ofDefault == branches[remoteDefault]

refSha == branches[oldBranchName]

\* a createNewBranch that reads the tip and never creates the branch
createsRef_never == FALSE

\* a createRef that is sent in a dry run as well
createsRef_always == TRUE

\* `if (this.execute)` around git.createRef
createsRef == execute

createNewBranch ==
    /\ pc = "createNewBranch"
    /\ LET sha == refSha
           getRef == <<GetRef(oldBranchName)>>
           createRef == <<GetRef(oldBranchName), CreateRef(newBranchName, sha)>>
           failed == <<Entry("createNewBranch", "failed")>>
       IN
       \/ \E f \in TransientFaults :
            /\ faulted' = TRUE
            /\ UNCHANGED branches
            /\ \/ Reject("createNewBranch", f, getRef, failed)
               \/ createsRef /\ sha # NoSha
                    /\ Reject("createNewBranch", f, createRef, failed)
       \/ /\ sha = NoSha
          /\ UNCHANGED <<faulted, branches>>
          /\ Reject("createNewBranch", RequestError(404, <<"Not Found">>),
                    getRef, failed)
       \/ /\ sha # NoSha
          /\ ~createsRef
          /\ UNCHANGED <<faulted, branches>>
          /\ Resolve("createNewBranch", getRef,
                     <<Entry("createNewBranch", "succeeded")>>)
       \/ /\ sha # NoSha
          /\ createsRef
          /\ UNCHANGED faulted
          /\ IF branches[newBranchName] # NoSha
             THEN /\ UNCHANGED branches
                  /\ Reject("createNewBranch",
                            RequestError(422, <<"Reference already exists">>),
                            createRef, failed)
             ELSE /\ branches' = [branches EXCEPT ![newBranchName] = sha]
                  /\ Resolve("createNewBranch", createRef,
                             <<Entry("createNewBranch", "succeeded")>>)
    /\ UNCHANGED <<configVars, remoteDefault, protection, putProtection,
                   prBase, createdIssues, defaultBranch, loopVars, repoAccess,
                   permission, answer, prompt, banner, prsAtEntry, concurrent,
                   transformVars, loggerVars, twinVars>>

ReposUpdate(branch) == [op |-> "repos.update", default_branch |-> branch]

\* an update of the default branch whatever the default was
skipsDefaultBranch_never == FALSE

\* `if (this.oldBranchName !== this.defaultBranch)`: log and return
skipsDefaultBranch == oldBranchName # defaultBranch

updateDefaultBranch ==
    /\ pc = "updateDefaultBranch"
    /\ \/ /\ skipsDefaultBranch
          /\ UNCHANGED <<faulted, remoteDefault>>
          /\ Resolve("updateDefaultBranch", <<>>,
                     <<Entry("updateDefaultBranch", "skipped")>>)
       \/ /\ ~skipsDefaultBranch
          /\ ~execute
          /\ UNCHANGED <<faulted, remoteDefault>>
          /\ Resolve("updateDefaultBranch", <<>>,
                     <<Entry("updateDefaultBranch", "succeeded")>>)
       \/ /\ ~skipsDefaultBranch
          /\ execute
          /\ \/ /\ remoteDefault' = newBranchName
                /\ UNCHANGED faulted
                /\ Resolve("updateDefaultBranch",
                           <<ReposUpdate(newBranchName)>>,
                           <<Entry("updateDefaultBranch", "succeeded")>>)
             \/ \E f \in TransientFaults :
                  /\ faulted' = TRUE
                  /\ UNCHANGED remoteDefault
                  /\ Reject("updateDefaultBranch", f,
                            <<ReposUpdate(newBranchName)>>,
                            <<Entry("updateDefaultBranch", "failed")>>)
    /\ UNCHANGED <<configVars, branches, protection, putProtection, prBase,
                   createdIssues, defaultBranch, loopVars, repoAccess, permission,
                   answer, prompt, banner, prsAtEntry, concurrent, transformVars, loggerVars, twinVars>>

GetProtection(branch) == [op |-> "repos.getBranchProtection", branch |-> branch]
PutProtection(branch, payload) ==
    [op |-> "repos.updateBranchProtection", branch |-> branch,
     payload |-> payload]
DeleteProtection(branch) ==
    [op |-> "repos.deleteBranchProtection", branch |-> branch]

\* a getBranchProtection that was answered with an error
GetProtectionFailed(branch, err) ==
    [op |-> "repos.getBranchProtection", branch |-> branch, error |-> err]

\* a catch block that looks at the status alone
protectionSkipped_byStatus(err) == HasStatus(err, 404) \/ HasStatus(err, 403)

\* the catch block of updateBranchProtection: errors read as "nothing to move"
protectionSkipped(err) ==
    \/ HasStatus(err, 404) /\ err.message = <<"Branch not protected">>
    \/ /\ HasStatus(err, 403)
       /\ err.message =
            <<"Upgrade to GitHub Pro or make this repository public to enable this feature.">>

updateBranchProtection ==
    /\ pc = "updateBranchProtection"
    /\ LET step == "updateBranchProtection"
           p == protection[oldBranchName]
           get == GetProtection(oldBranchName)
           put == PutProtection(newBranchName, newProtection(p))
           del == DeleteProtection(oldBranchName)
           ok == <<Entry(step, "succeeded")>>
           failed == <<Entry(step, "failed")>>
       IN
       \* repos.getBranchProtection fails
       \/ \E err \in TransientFaults \cup
                     (IF p = NoRule THEN {NotProtected, TierDisallows} ELSE {}) :
            /\ faulted' = (faulted \/ err \in TransientFaults)
            /\ UNCHANGED <<protection, putProtection>>
            /\ IF protectionSkipped(err)
               THEN Resolve(step, <<GetProtectionFailed(oldBranchName, err)>>,
                            ok)
               ELSE Reject(step, err,
                           <<GetProtectionFailed(oldBranchName, err)>>, failed)
       \* the rule is read; a dry run only logs the two writes
       \/ /\ p # NoRule
          /\ ~execute
          /\ UNCHANGED <<faulted, protection, putProtection>>
          /\ Resolve(step, <<get>>, ok)
       \* repos.updateBranchProtection fails
       \/ /\ p # NoRule
          /\ execute
          /\ \E err \in TransientFaults :
               /\ faulted' = TRUE
               /\ UNCHANGED <<protection, putProtection>>
               /\ IF protectionSkipped(err)
                  THEN Resolve(step, <<get, put>>, ok)
                  ELSE Reject(step, err, <<get, put>>, failed)
       \* the rule is written; repos.deleteBranchProtection fails
       \/ /\ p # NoRule
          /\ execute
          /\ putProtection' =
               [putProtection EXCEPT ![newBranchName] = newProtection(p)]
          /\ \E err \in TransientFaults :
               /\ faulted' = TRUE
               /\ UNCHANGED protection
               /\ IF protectionSkipped(err)
                  THEN Resolve(step, <<get, put, del>>, ok)
                  ELSE Reject(step, err, <<get, put, del>>, failed)
       \* both writes succeed
       \/ /\ p # NoRule
          /\ execute
          /\ putProtection' =
               [putProtection EXCEPT ![newBranchName] = newProtection(p)]
          /\ protection' = [protection EXCEPT ![oldBranchName] = NoRule]
          /\ UNCHANGED faulted
          /\ Resolve(step, <<get, put, del>>, ok)
    /\ UNCHANGED <<configVars, branches, remoteDefault, prBase, createdIssues,
                   defaultBranch, loopVars, repoAccess, permission, answer, prompt,
                   banner, prsAtEntry, concurrent, transformVars, loggerVars, twinVars>>

PullsList(base) == [op |-> "pulls.list", base |-> base]
PullsUpdate(number, base) ==
    [op |-> "pulls.update", pull_number |-> number, base |-> base]

\* the first page of the open pull requests in S: whichever of them the
\* platform puts on it. Pull requests are told apart by their number alone,
\* so the page is given in ascending order of number; any other order is the
\* same behaviour with the pull requests renamed.
FirstPages(S) ==
    LET len == IF Cardinality(S) < PageSize THEN Cardinality(S) ELSE PageSize
    IN  {q \in [1..len -> S] : \A i, j \in 1..len : i < j => q[i] < q[j]}

\* an updatePullRequests without the early return of a dry run
skipsPullRequests_never == FALSE

\* `if (!this.execute) return this.logger.success(msg)`
skipsPullRequests == ~execute

\* a loop that stops after its first page
loopAgain_never(data) == FALSE

\* a loop that stops at the first page that is not full
loopAgain_whileFull(data) == Len(data) = PageSize

\* `while (response.data.length)`
loopAgain(data) == Len(data) # 0

\* updatePullRequests up to and including a pulls.list of the do-while loop
updatePullRequests ==
    /\ pc = "updatePullRequests"
    /\ LET step == "updatePullRequests" IN
       \/ /\ skipsPullRequests
          /\ UNCHANGED <<loopVars, prsAtEntry, faulted>>
          /\ Resolve(step, <<>>, <<Entry(step, "succeeded")>>)
       \/ /\ ~skipsPullRequests
          /\ prsAtEntry' = IF Begin(step) # started
                           THEN OpenPRsWithBase(oldBranchName)
                           ELSE prsAtEntry
          /\ \/ \E f \in TransientFaults :
                  /\ faulted' = TRUE
                  /\ UNCHANGED loopVars
                  /\ Reject(step, f, <<PullsList(oldBranchName)>>,
                            <<Entry(step, "failed")>>)
             \/ \E data \in FirstPages(OpenPRsWithBase(oldBranchName)) :
                  /\ UNCHANGED faulted
                  /\ response' = data
                  /\ page' = data
                  /\ pc' = "pulls.update"
                  /\ calls' = Append(calls, PullsList(oldBranchName))
                  /\ started' = Begin(step)
                  /\ UNCHANGED <<report, result, caught, failedStep,
                                 errorLogged, exitStatus>>
    /\ UNCHANGED <<configVars, remoteVars, defaultBranch, repoAccess,
                   permission, answer, prompt, banner, concurrent,
                   transformVars, loggerVars, twinVars>>

\* a pull request that is sent back to the branch it came from
retargetBase_old == oldBranchName

\* `base: this.newBranchName` of pulls.update
retargetBase == newBranchName

\* one pass of `for await (const pr of response.data)`
retargetPullRequest ==
    /\ pc = "pulls.update"
    /\ page # <<>>
    /\ LET step == "updatePullRequests"
           number == Head(page)
       IN
       \/ \E f \in TransientFaults :
            /\ faulted' = TRUE
            /\ UNCHANGED <<loopVars, prBase>>
            /\ Reject(step, f, <<PullsUpdate(number, retargetBase)>>,
                      <<Entry(step, "failed")>>)
       \/ /\ prBase' = [prBase EXCEPT ![number] = retargetBase]
          /\ page' = Tail(page)
          /\ calls' = Append(calls, PullsUpdate(number, retargetBase))
          /\ UNCHANGED <<faulted, response, pc, report, started, result,
                         caught, failedStep, errorLogged, exitStatus>>
    /\ UNCHANGED <<configVars, branches, remoteDefault, protection,
                   putProtection, createdIssues, defaultBranch, repoAccess,
                   permission, answer, prompt, banner, prsAtEntry, concurrent,
                   transformVars, loggerVars, twinVars>>

\* the page is done: list again, or leave the loop and succeed
loopWhile ==
    /\ pc = "pulls.update"
    /\ page = <<>>
    /\ IF loopAgain(response)
       THEN /\ pc' = "updatePullRequests"
            /\ UNCHANGED <<calls, report, started, result, caught, failedStep,
                           errorLogged, exitStatus>>
       ELSE Resolve("updatePullRequests", <<>>,
                    <<Entry("updatePullRequests", "succeeded")>>)
    /\ UNCHANGED <<configVars, remoteVars, defaultBranch, loopVars, repoAccess,
                   permission, answer, prompt, banner, prsAtEntry, concurrent,
                   faulted, transformVars, loggerVars, twinVars>>

\* somebody else opens a pull request against the old branch while the
\* retarget loop is running
openPullRequest ==
    /\ execute
    /\ pc \in {"updatePullRequests", "pulls.update"}
    /\ \E number \in PRNumbers :
         /\ prBase[number] = NoPR
         /\ \A m \in PRNumbers : m < number => prBase[m] # NoPR
         /\ prBase' = [prBase EXCEPT ![number] = oldBranchName]
    /\ concurrent' = TRUE
    /\ UNCHANGED <<configVars, branches, remoteDefault, protection,
                   putProtection, createdIssues, defaultBranch, pc, loopVars,
                   repoAccess, permission, calls, report, started, result,
                   caught, failedStep, errorLogged, exitStatus, answer, prompt, banner,
                   prsAtEntry, faulted, transformVars, loggerVars, twinVars>>

DeleteRef(branch) == [op |-> "git.deleteRef", branch |-> branch]

\* deleteOldBranch: `if (this.execute)` around git.deleteRef
deletesRef_always == TRUE

deletesRef == execute

deleteOldBranch ==
    /\ pc = "deleteOldBranch"
    /\ LET step == "deleteOldBranch" IN
       \/ /\ ~deletesRef
          /\ UNCHANGED <<faulted, branches>>
          /\ Resolve(step, <<>>, <<Entry(step, "succeeded")>>)
       \/ /\ deletesRef
          /\ \E f \in TransientFaults :
               /\ faulted' = TRUE
               /\ UNCHANGED branches
               /\ Reject(step, f, <<DeleteRef(oldBranchName)>>,
                         <<Entry(step, "failed")>>)
       \/ /\ deletesRef
          /\ UNCHANGED faulted
          /\ IF protection[oldBranchName] # NoRule
             THEN /\ UNCHANGED branches
                  /\ Reject(step,
                            RequestError(422, <<"Cannot delete a protected branch">>),
                            <<DeleteRef(oldBranchName)>>,
                            <<Entry(step, "failed")>>)
             ELSE /\ branches' = [branches EXCEPT ![oldBranchName] = NoSha]
                  /\ Resolve(step, <<DeleteRef(oldBranchName)>>,
                             <<Entry(step, "succeeded")>>)
    /\ UNCHANGED <<configVars, remoteDefault, protection, putProtection,
                   prBase, createdIssues, defaultBranch, loopVars, repoAccess,
                   permission, answer, prompt, banner, prsAtEntry, concurrent,
                   transformVars, loggerVars, twinVars>>

SearchCode(q, count) == [op |-> "search.code", q |-> q, total_count |-> count]
CreateIssue(title) == [op |-> "issues.create", title |-> title]

RiffRaffTitle == <<"Update Riff Raff configuration">>
ReferencesTitle == <<"Check references to ", oldBranchName>>
OtherTitle == <<"Update ", IF guardian THEN "other" ELSE "", " build configuration">>

\* the common shape of checkRiffRaffFile and checkReferencesToOldBranch:
\* search, and open an issue about what was found
\* a catch block that marks the check as failed and lets the chain go on
followUpCatch_swallows(step, err, newCalls) ==
    Resolve(step, newCalls, <<Entry(step, "failed")>>)

\* the catch block of a follow-up check: `spinner.fail(); throw err`
followUpCatch(step, err, newCalls) ==
    Reject(step, err, newCalls, <<Entry(step, "failed")>>)

searchAndOpenIssue(step, q, counts, title) ==
    \/ \E f \in TransientFaults :
         /\ faulted' = TRUE
         /\ UNCHANGED createdIssues
         /\ followUpCatch(step, f, <<[op |-> "search.code", q |-> q]>>)
    \/ \E count \in counts :
         LET search == SearchCode(q, count) IN
         \/ /\ count = 0 \/ ~issues \/ ~execute
            /\ UNCHANGED <<faulted, createdIssues>>
            /\ Resolve(step, <<search>>, <<Entry(step, "succeeded")>>)
         \/ /\ count # 0 /\ issues /\ execute
            /\ \/ /\ createdIssues' = Append(createdIssues, title)
                  /\ UNCHANGED faulted
                  /\ Resolve(step, <<search, CreateIssue(title)>>,
                             <<Entry(step, "succeeded")>>)
               \/ \E f \in TransientFaults :
                    /\ faulted' = TRUE
                    /\ UNCHANGED createdIssues
                    /\ followUpCatch(step, f,
                                     <<search, CreateIssue(title)>>)

checkRiffRaffFile ==
    /\ pc = "checkRiffRaffFile"
    /\ \/ /\ ~guardian
          /\ UNCHANGED <<faulted, createdIssues>>
          /\ Resolve("checkRiffRaffFile", <<>>, <<>>)
       \/ /\ guardian
          /\ searchAndOpenIssue("checkRiffRaffFile", "filename:riff-raff.yaml",
                                {0, 1}, RiffRaffTitle)
    /\ UNCHANGED <<configVars, branches, remoteDefault, protection,
                   putProtection, prBase, defaultBranch, loopVars, repoAccess,
                   permission, answer, prompt, banner, prsAtEntry, concurrent,
                   transformVars, loggerVars, twinVars>>

checkReferencesToOldBranch ==
    /\ pc = "checkReferencesToOldBranch"
    /\ searchAndOpenIssue("checkReferencesToOldBranch", oldBranchName,
                          {0, 2}, ReferencesTitle)
    /\ UNCHANGED <<configVars, branches, remoteDefault, protection,
                   putProtection, prBase, defaultBranch, loopVars, repoAccess,
                   permission, answer, prompt, banner, prsAtEntry, concurrent,
                   transformVars, loggerVars, twinVars>>

\* a general issue that is opened only with the guardian steps switched on
opensOtherIssue_ifGuardian == issues /\ guardian

\* `if (!this.issues) return`: the guardian flag only changes the wording
opensOtherIssue == issues

openOtherConfigurationIssue ==
    /\ pc = "openOtherConfigurationIssue"
    /\ LET step == "openOtherConfigurationIssue" IN
       \/ /\ ~opensOtherIssue
          /\ UNCHANGED <<faulted, createdIssues>>
          /\ Resolve(step, <<>>, <<>>)
       \/ /\ opensOtherIssue
          /\ ~execute
          /\ UNCHANGED <<faulted, createdIssues>>
          /\ Resolve(step, <<>>, <<Entry(step, "succeeded")>>)
       \/ /\ opensOtherIssue
          /\ execute
          /\ \/ /\ createdIssues' = Append(createdIssues, OtherTitle)
                /\ UNCHANGED faulted
                /\ Resolve(step, <<CreateIssue(OtherTitle)>>,
                           <<Entry(step, "succeeded")>>)
             \/ \E f \in TransientFaults :
                  /\ faulted' = TRUE
                  /\ UNCHANGED createdIssues
                  /\ followUpCatch(step, f, <<CreateIssue(OtherTitle)>>)
    /\ UNCHANGED <<configVars, branches, remoteDefault, protection,
                   putProtection, prBase, defaultBranch, loopVars, repoAccess,
                   permission, answer, prompt, banner, prsAtEntry, concurrent,
                   transformVars, loggerVars, twinVars>>

\* the last .then() of run: the success or "Dry run complete" message
runThen ==
    /\ pc = "then"
    /\ pc' = "done"
    /\ result' = "success"
    /\ exitStatus' = <<0>>
    /\ UNCHANGED <<configVars, remoteVars, defaultBranch, loopVars, repoAccess,
                   permission, calls, report, started, caught, failedStep,
                   errorLogged, answer, prompt, banner, prsAtEntry,
                   concurrent, faulted, transformVars, loggerVars, twinVars>>

(***************************************************************************)
(* The Logger                                                              *)
(***************************************************************************)
MaxLogCalls == 3

Messages == {<<"first">>, <<"second">>}

NoSpinner == [set |-> FALSE, isSpinning |-> FALSE, text |-> <<>>]
NoLog == [n |-> 0, method |-> "none", message |-> <<>>]

LoggerIdle ==
    /\ spinner = NoSpinner
    /\ logged = <<>>
    /\ lastLog = NoLog

Styled(style, s) == [style |-> style, s |-> s]

\* the line a spinning spinner gains: `\n    ${blue('>')} ${italic(message)}`
SpinnerLine(message) ==
    <<Styled("plain", <<"\n    ">>), Styled("blue", <<">">>),
      Styled("plain", <<" ">>), Styled("italic", message)>>

LogCall(method, message) ==
    [n |-> lastLog.n + 1, method |-> method, message |-> message]

\* a test that looks at the spinner but not at whether it spins
appendsToSpinner_ifSet == spinner.set

\* `this.spinner && this.spinner.isSpinning`
appendsToSpinner == spinner.set /\ spinner.isSpinning

\* the body of Logger.log
logMessage(message) ==
    IF appendsToSpinner
    THEN /\ spinner' = [spinner EXCEPT !.text = @ \o SpinnerLine(message)]
         /\ UNCHANGED logged
    ELSE /\ logged' = Append(logged, message)
         /\ UNCHANGED spinner

LoggerFrame ==
    UNCHANGED <<configVars, remoteVars, defaultBranch, pc, loopVars,
                repoAccess, permission, calls, report, started, result,
                caught, failedStep, answer, prompt, banner, prsAtEntry,
                concurrent, faulted, transformVars, verbose, twinVars>>

LoggerReady ==
    /\ pc = "logger"
    /\ exitStatus = <<>>
    /\ lastLog.n < MaxLogCalls

log ==
    /\ LoggerReady
    /\ \E message \in Messages :
         /\ logMessage(message)
         /\ lastLog' = LogCall("log", message)
    /\ LoggerFrame
    /\ UNCHANGED <<errorLogged, exitStatus>>

info ==
    /\ LoggerReady
    /\ \E message \in Messages :
         /\ logMessage(message)
         /\ lastLog' = LogCall("info", message)
    /\ LoggerFrame
    /\ UNCHANGED <<errorLogged, exitStatus>>

debug ==
    /\ LoggerReady
    /\ \E message \in Messages :
         /\ IF verbose
            THEN logMessage(message)
            ELSE UNCHANGED <<spinner, logged>>
         /\ lastLog' = LogCall("debug", message)
    /\ LoggerFrame
    /\ UNCHANGED <<errorLogged, exitStatus>>

\* Logger.error for an Error or for a string
error ==
    /\ LoggerReady
    /\ \E message \in Messages, isError \in BOOLEAN :
         /\ errorLogged' = IF isError THEN errorMessage(Error(message))
                                      ELSE message
         /\ exitStatus' = <<commandError(errorLogged').exit>>
         /\ lastLog' = LogCall("error", message)
    /\ LoggerFrame
    /\ UNCHANGED <<spinner, logged>>

\* spin: a spinner that is set is stopped, a new one is created and started
spin ==
    /\ LoggerReady
    /\ \E message \in Messages :
         /\ spinner' = [set |-> TRUE, isSpinning |-> TRUE,
                        text |-> <<Styled("plain", message)>>]
         /\ lastLog' = LogCall("spin", message)
    /\ LoggerFrame
    /\ UNCHANGED <<logged, errorLogged, exitStatus>>

\* a step ends its spinner (spinner.succeed() or spinner.fail())
spinnerEnds ==
    /\ pc = "logger"
    /\ exitStatus = <<>>
    /\ spinner.set /\ spinner.isSpinning
    /\ spinner' = [spinner EXCEPT !.isSpinning = FALSE]
    /\ LoggerFrame
    /\ UNCHANGED <<logged, lastLog, errorLogged, exitStatus>>

\* `${newLine ? '\n' : ''}${symbol} ${message}`
WithSymbol(symbol, message, newLine) ==
    (IF newLine THEN <<"\n">> ELSE <<>>) \o <<symbol, " ">> \o message

success ==
    /\ LoggerReady
    /\ \E message \in Messages, newLine \in BOOLEAN :
         /\ logMessage(WithSymbol("logSymbols.success", message, newLine))
         /\ lastLog' = LogCall("success", message)
    /\ LoggerFrame
    /\ UNCHANGED <<errorLogged, exitStatus>>

information ==
    /\ LoggerReady
    /\ \E message \in Messages, newLine \in BOOLEAN :
         /\ logMessage(WithSymbol("logSymbols.info", message, newLine))
         /\ lastLog' = LogCall("information", message)
    /\ LoggerFrame
    /\ UNCHANGED <<errorLogged, exitStatus>>

(***************************************************************************)
(* Specifications                                                          *)
(***************************************************************************)
Idle ==
    /\ defaultBranch = ""
    /\ page = <<>>
    /\ response = <<>>
    /\ putProtection = [b \in BranchNames |-> NoPayload]
    /\ createdIssues = <<>>
    /\ repoAccess = 0
    /\ permission = "unread"
    /\ calls = <<>>
    /\ report = <<>>
    /\ started = <<>>
    /\ result = "running"
    /\ caught = NoError
    /\ failedStep = ""
    /\ errorLogged = <<>>
    /\ exitStatus = <<>>
    /\ answer = "none"
    /\ prompt = NoPrompt
    /\ verbose = FALSE
    /\ LoggerIdle
    /\ banner = FALSE
    /\ prsAtEntry = {}
    /\ concurrent = FALSE
    /\ faulted = FALSE
    /\ responses = NoAnswers
    /\ dry = NoRun

\* a GitHub object just constructed, and any repository it may be pointed at
Init ==
    /\ GivenRepository
    /\ oldBranchName = "master"
    /\ newBranchName \in {"main", "master"}
    /\ force \in BOOLEAN
    /\ execute \in BOOLEAN
    /\ guardian \in BOOLEAN
    /\ issues \in BOOLEAN
    /\ pc = "run"
    /\ branches \in {b \in [BranchNames -> {NoSha, "c1", "c2", "c3"}] :
                        /\ b["master"] \in {NoSha, "c1"}
                        /\ b["main"] \in {NoSha, "c2"}
                        /\ b["develop"] = "c3"}
    /\ remoteDefault \in {b \in {"master", "develop"} : branches[b] # NoSha}
    /\ protection \in {r \in [BranchNames -> PipelineRules \cup {NoRule}] :
                         /\ r["main"] = NoRule
                         /\ r["develop"] = NoRule
                         /\ branches["master"] = NoSha => r["master"] = NoRule}
    /\ \E k \in 0..MaxPRs :
         /\ branches["master"] = NoSha => k = 0
         /\ prBase = [n \in PRNumbers |-> IF n <= k THEN "master" ELSE NoPR]
    /\ Idle
    /\ initial = Remote
    /\ tRule = NoRule
    /\ tPayload = NoPayload

Next ==
    \/ run
    \/ checkRepoExists
    \/ checkOldBranchDoesExist
    \/ checkNewBranchDoesNotExist
    \/ checkAdmin
    \/ checkWithUser
    \/ createNewBranch
    \/ updateDefaultBranch
    \/ updateBranchProtection
    \/ updatePullRequests
    \/ retargetPullRequest
    \/ loopWhile
    \/ openPullRequest
    \/ deleteOldBranch
    \/ checkRiffRaffFile
    \/ checkReferencesToOldBranch
    \/ openOtherConfigurationIssue
    \/ runThen

Spec == Init /\ [][Next]_vars

\* the transformation applied to each rule of AllRules
InitTransform ==
    /\ GivenRepository
    /\ oldBranchName = "master"
    /\ newBranchName = "main"
    /\ force = FALSE
    /\ execute = FALSE
    /\ guardian = TRUE
    /\ issues = TRUE
    /\ pc = "idle"
    /\ branches = [b \in BranchNames |-> NoSha]
    /\ remoteDefault = "master"
    /\ protection = [b \in BranchNames |-> NoRule]
    /\ prBase = [n \in PRNumbers |-> NoPR]
    /\ Idle
    /\ initial = Remote
    /\ tRule \in AllRules
    /\ tPayload = NoPayload

NextTransform == transformRule

SpecTransform == InitTransform /\ [][NextTransform]_vars

\* a Logger just constructed, with either value of verbose
InitLogger ==
    /\ GivenRepository
    /\ oldBranchName = "master"
    /\ newBranchName = "main"
    /\ force = FALSE
    /\ execute = FALSE
    /\ guardian = TRUE
    /\ issues = TRUE
    /\ pc = "logger"
    /\ branches = [b \in BranchNames |-> NoSha]
    /\ remoteDefault = "master"
    /\ protection = [b \in BranchNames |-> NoRule]
    /\ prBase = [n \in PRNumbers |-> NoPR]
    /\ defaultBranch = ""
    /\ page = <<>>
    /\ response = <<>>
    /\ putProtection = [b \in BranchNames |-> NoPayload]
    /\ createdIssues = <<>>
    /\ repoAccess = 0
    /\ permission = "unread"
    /\ calls = <<>>
    /\ report = <<>>
    /\ started = <<>>
    /\ result = "running"
    /\ caught = NoError
    /\ failedStep = ""
    /\ errorLogged = <<>>
    /\ exitStatus = <<>>
    /\ answer = "none"
    /\ prompt = NoPrompt
    /\ banner = FALSE
    /\ prsAtEntry = {}
    /\ concurrent = FALSE
    /\ faulted = FALSE
    /\ initial = Remote
    /\ tRule = NoRule
    /\ tPayload = NoPayload
    /\ verbose \in BOOLEAN
    /\ LoggerIdle
    /\ responses = NoAnswers
    /\ dry = NoRun

NextLogger ==
    \/ log
    \/ info
    \/ debug
    \/ error
    \/ spin
    \/ spinnerEnds
    \/ success
    \/ information

SpecLogger == InitLogger /\ [][NextLogger]_vars

\* updatePullRequests called on its own, on a repository whose new branch
\* exists, with any set of open pull requests
InitDrain ==
    /\ GivenRepository
    /\ oldBranchName = "master"
    /\ newBranchName = "main"
    /\ force = TRUE
    /\ execute \in BOOLEAN
    /\ guardian = TRUE
    /\ issues = TRUE
    /\ pc = "updatePullRequests"
    /\ branches = [b \in BranchNames |-> IF b = "develop" THEN "c3" ELSE "c1"]
    /\ remoteDefault = "main"
    /\ protection = [b \in BranchNames |-> NoRule]
    /\ prBase \in [PRNumbers -> {"master", "develop", NoPR}]
    /\ Idle
    /\ initial = Remote
    /\ tRule = NoRule
    /\ tPayload = NoPayload

DrainLoop ==
    \/ updatePullRequests
    \/ retargetPullRequest
    \/ loopWhile

NextDrain ==
    \/ updatePullRequests
    \/ retargetPullRequest
    \/ loopWhile
    \/ openPullRequest

\* the awaited requests of the loop are answered: the loop is never left
\* waiting for ever; nobody is obliged to open pull requests
SpecDrain == InitDrain /\ [][NextDrain]_vars /\ WF_vars(DrainLoop)

\* the number search.issuesAndPullRequests may give as total_count is up to
MaxTotalCount == 60

\* checkWithUser from the answer of the search on: the message is put
\* together for the count the search gave, then logged or asked
promptForCount ==
    /\ pc = "checkWithUser.prompt"
    /\ prompt = NoPrompt
    /\ \E count \in 0..MaxTotalCount :
         \/ /\ ~promptsUser
            /\ prompt' = Prompt("logger.log", count)
            /\ UNCHANGED answer
         \/ /\ promptsUser
            /\ prompt' = Prompt("prompts", count)
            /\ \E value \in BOOLEAN : answer' = IF value THEN "yes" ELSE "no"
    /\ UNCHANGED <<configVars, remoteVars, defaultBranch, pc, loopVars,
                   repoAccess, permission, calls, report, started, result,
                   caught, failedStep, errorLogged, exitStatus, banner,
                   prsAtEntry, concurrent, faulted, transformVars, loggerVars, twinVars>>

InitPrompt ==
    /\ GivenRepository
    /\ oldBranchName = "master"
    /\ newBranchName = "main"
    /\ force \in BOOLEAN
    /\ execute \in BOOLEAN
    /\ guardian = TRUE
    /\ issues = TRUE
    /\ pc = "checkWithUser.prompt"
    /\ branches = [b \in BranchNames |-> IF b = "master" THEN "c1" ELSE NoSha]
    /\ remoteDefault = "master"
    /\ protection = [b \in BranchNames |-> NoRule]
    /\ prBase = [n \in PRNumbers |-> NoPR]
    /\ Idle
    /\ initial = Remote
    /\ tRule = NoRule
    /\ tPayload = NoPayload

NextPrompt == promptForCount

SpecPrompt == InitPrompt /\ [][NextPrompt]_vars

\* the repository argument is any string of up to MaxArgLen characters
MaxArgLen == 3

ArgChars == {"o", "r", "/"}

Arguments ==
    UNION {[1..n -> ArgChars] : n \in 0..MaxArgLen}

\* the command started on any repository argument; the repository that the
\* argument names, if there is one, answers as any repository may
InitParse ==
    /\ repository \in Arguments
    /\ owner = JsUndefined
    /\ repo = JsUndefined
    /\ oldBranchName = "master"
    /\ newBranchName = "main"
    /\ force = TRUE
    /\ execute \in BOOLEAN
    /\ guardian = TRUE
    /\ issues = TRUE
    /\ pc = "MasterToMain.run"
    /\ branches = [b \in BranchNames |-> IF b = "master" THEN "c1" ELSE NoSha]
    /\ remoteDefault = "master"
    /\ protection = [b \in BranchNames |-> NoRule]
    /\ prBase = [n \in PRNumbers |-> NoPR]
    /\ Idle
    /\ initial = Remote
    /\ tRule = NoRule
    /\ tPayload = NoPayload

NextParse ==
    \/ parseRepository
    \/ run
    \/ checkRepoExists

SpecParse == InitParse /\ [][NextParse]_vars

\* what a run has shown of itself by the end of checkWithUser
Observed ==
    [calls |-> calls, report |-> report, started |-> started,
     result |-> result, caught |-> caught, failedStep |-> failedStep,
     errorLogged |-> errorLogged, exitStatus |-> exitStatus, pc |-> pc,
     defaultBranch |-> defaultBranch, responses |-> responses]

\* the five checks of the chain are over: the chain stands before
\* createNewBranch, or it was rejected
ChecksOver == pc \in {"createNewBranch", "done"}

\* the command is started again with --execute on the repository a dry run
\* has just been checked against: a new GitHub object, the same remote
runAgain ==
    /\ ~execute
    /\ dry = NoRun
    /\ ChecksOver
    /\ dry' = Observed
    /\ execute' = TRUE
    /\ pc' = "run"
    /\ defaultBranch' = ""
    /\ repoAccess' = 0
    /\ permission' = "unread"
    /\ calls' = <<>>
    /\ report' = <<>>
    /\ started' = <<>>
    /\ result' = "running"
    /\ caught' = NoError
    /\ failedStep' = ""
    /\ errorLogged' = <<>>
    /\ exitStatus' = <<>>
    /\ answer' = "none"
    /\ prompt' = NoPrompt
    /\ banner' = FALSE
    /\ faulted' = FALSE
    /\ responses' = NoAnswers
    /\ UNCHANGED <<argVars, oldBranchName, newBranchName, force, guardian,
                   issues, initial, remoteVars, loopVars, prsAtEntry,
                   concurrent, transformVars, loggerVars>>

\* a dry run up to the end of checkWithUser, then an execute run
InitTwin == Init /\ execute = FALSE

NextTwin ==
    \/ run
    \/ checkRepoExists
    \/ checkOldBranchDoesExist
    \/ checkNewBranchDoesNotExist
    \/ checkAdmin
    \/ checkWithUser
    \/ runAgain

SpecTwin == InitTwin /\ [][NextTwin]_vars

(***************************************************************************)
(* Properties                                                              *)
(***************************************************************************)
Last(q) == q[Len(q)]
OpsOf(q) == {q[i].op : i \in 1..Len(q)}
NoMutatingCalls == OpsOf(calls) \cap MutatingOps = {}
Reported(step, outcome) ==
    \E i \in 1..Len(report) : report[i] = Entry(step, outcome)
Finished == pc = "done"

\* C1: in a run with execute = false no mutating octokit method (createRef,
\* repos.update, updateBranchProtection, deleteBranchProtection, pulls.update,
\* deleteRef, issues.create) is ever called, whatever the repository's state
\* and the other flags: every call of a dry run is a read.
C1_DryRunOnlyReads == ~execute => NoMutatingCalls

C1_Witness ==
    /\ ~execute
    /\ Finished /\ result = "success"
    /\ Len(calls) >= 9
    /\ initial.protection[oldBranchName] # NoRule
    /\ OpenPRsWithBase(oldBranchName) # {}

\* C2: fail-fast. Once a step has failed no later step is started and no
\* further request, read or write, is made in that run; the step that failed
\* is the last one started.
C2_FailFast ==
    [][ /\ result = "error" => (calls' = calls /\ started' = started)
        /\ result' = "error" =>
              (pc' = "done" /\ started' # <<>>
               /\ failedStep' = Last(started')) ]_vars

C2_Witness ==
    /\ result = "error"
    /\ failedStep = "updateBranchProtection"
    /\ Len(calls) >= 8

\* C3: run starts the steps in the fixed order (repository, old branch, new
\* branch, admin, confirmation, new branch creation, default branch,
\* protection, pull requests, deletion, the three follow-up checks), and a
\* step starts only when every step before it has started and succeeded.
StepOrder ==
    <<"checkRepoExists", "checkOldBranchDoesExist",
      "checkNewBranchDoesNotExist", "checkAdmin", "checkWithUser",
      "createNewBranch", "updateDefaultBranch", "updateBranchProtection",
      "updatePullRequests", "deleteOldBranch", "checkRiffRaffFile",
      "checkReferencesToOldBranch", "openOtherConfigurationIssue">>

StepIndex(step) == CHOOSE i \in 1..Len(StepOrder) : StepOrder[i] = step

Healthy == repoAccess = 200 /\ permission = "admin" /\ ~faulted

HasDismissalList(rule) ==
    /\ "required_pull_request_reviews" \in DOMAIN rule
    /\ "dismissal_restrictions" \in DOMAIN rule.required_pull_request_reviews

\* old present, new absent, a rule without dismissal allow-list on old,
\* two open pull requests against old, force
ScenarioInputs ==
    /\ oldBranchName # newBranchName
    /\ initial.branches[oldBranchName] # NoSha
    /\ initial.branches[newBranchName] = NoSha
    /\ initial.protection[oldBranchName] # NoRule
    /\ ~HasDismissalList(initial.protection[oldBranchName])
    /\ Cardinality({n \in PRNumbers : initial.prBase[n] = oldBranchName}) = 2
    /\ force

PayloadHasDismissalKey(payload) ==
    \/ "dismissal_restrictions" \in DOMAIN payload
    \/ /\ payload.required_pull_request_reviews # JsNull
       /\ "dismissal_restrictions" \in
             DOMAIN payload.required_pull_request_reviews

\* C4 (Scenario A): old branch present, new branch absent, a protection rule
\* without dismissal allow-list on old, two open pull requests against old,
\* execute and force. The run ends in success with the new branch at old's
\* tip commit, the new branch's protection payload without any
\* dismissal_restrictions key, old's protection removed, both pull requests
\* based on new, and the old branch deleted.
C4_ScenarioA ==
    (ScenarioInputs /\ execute /\ Healthy /\ Finished) =>
        /\ result = "success"
        /\ branches[newBranchName] = initial.branches[oldBranchName]
        /\ putProtection[newBranchName] # NoPayload
        /\ ~PayloadHasDismissalKey(putProtection[newBranchName])
        /\ protection[oldBranchName] = NoRule
        /\ \A n \in PRNumbers :
              initial.prBase[n] = oldBranchName => prBase[n] = newBranchName
        /\ branches[oldBranchName] = NoSha

C4_Witness ==
    /\ ScenarioInputs /\ execute /\ Healthy /\ Finished
    /\ result = "success"
    /\ initial.protection[oldBranchName] = RuleReviews
    /\ branches[newBranchName] = "c1"

\* the causes of the taxonomy, as the errors the code throws for them
AlreadyExists == Error(<<"The ", newBranchName, " branch already exists">>)
UserAborted == Error(<<"Process aborted">>)

\* C5 (Scenario B): whenever the new branch already exists the run fails and
\* makes no mutating call, in execute and in dry-run mode alike; when the
\* lookup of the new branch is reached and answered, the run fails at
\* checkNewBranchDoesNotExist with the "already exists" error.
C5_ScenarioB ==
    (initial.branches[newBranchName] # NoSha /\ Finished) =>
        /\ result = "error"
        /\ NoMutatingCalls
        /\ Remote = initial
        /\ (Len(started) >= 3 /\ ~faulted) =>
              /\ failedStep = "checkNewBranchDoesNotExist"
              /\ caught = AlreadyExists
              /\ Last(report) = Entry("checkNewBranchDoesNotExist", "failed")

C5_Witness ==
    /\ initial.branches[newBranchName] # NoSha
    /\ oldBranchName # newBranchName
    /\ execute
    /\ Finished
    /\ failedStep = "checkNewBranchDoesNotExist"
    /\ caught = AlreadyExists

\* C6 (Scenario D): without force, an operator who declines the prompt ends
\* the run with the "Process aborted" error, thrown by checkWithUser and by
\* nothing else (no other failure carries this cause), and no mutating call
\* is made.
C6_ScenarioD ==
    /\ answer = "no" =>
          /\ ~force
          /\ Finished
          /\ result = "error"
          /\ caught = UserAborted
          /\ failedStep = "checkWithUser"
          /\ NoMutatingCalls
          /\ Remote = initial
    /\ (Finished /\ caught = UserAborted) => answer = "no"

C6_Witness ==
    /\ answer = "no"
    /\ execute
    /\ Len(calls) = 6
    /\ caught = UserAborted

\* a step of a dry run is reported as simulated: the run announced dry-run
\* mode and the step's line carries the success mark without any write
Simulated(step) == ~execute /\ banner /\ Reported(step, "succeeded")

StepsReported == {report[i].step : i \in 1..Len(report)}

\* C7 as stated (Scenario C): with the inputs of Scenario A but execute =
\* false the run succeeds, EVERY mutating step (new branch, default branch,
\* protection, pull requests, deletion, issue creation) is reported as
\* simulated, and the repository is unchanged.
C7_Original ==
    (ScenarioInputs /\ ~execute /\ Healthy /\ Finished) =>
        /\ result = "success"
        /\ \A step \in {"createNewBranch", "updateDefaultBranch",
                        "updateBranchProtection", "updatePullRequests",
                        "deleteOldBranch", "openOtherConfigurationIssue"} :
              Simulated(step)
        /\ Remote = initial

\* C7 (Scenario C, amended): with the inputs of Scenario A but execute =
\* false the run succeeds and the repository is unchanged; the new branch,
\* protection, pull request and deletion steps are reported as simulated;
\* the default-branch step is reported as simulated when old was the
\* default branch and as skipped otherwise; the issue step is reported as
\* simulated when issues are enabled and not reported at all otherwise.
C7_ScenarioC ==
    (ScenarioInputs /\ ~execute /\ Healthy /\ Finished) =>
        /\ result = "success"
        /\ \A step \in {"createNewBranch", "updateBranchProtection",
                        "updatePullRequests", "deleteOldBranch"} :
              Simulated(step)
        /\ IF oldBranchName = initial.remoteDefault
           THEN Simulated("updateDefaultBranch")
           ELSE /\ Reported("updateDefaultBranch", "skipped")
                /\ ~Reported("updateDefaultBranch", "succeeded")
        /\ IF issues
           THEN Simulated("openOtherConfigurationIssue")
           ELSE "openOtherConfigurationIssue" \notin StepsReported
        /\ NoMutatingCalls
        /\ Remote = initial

C7_Witness ==
    /\ ScenarioInputs /\ ~execute /\ Healthy /\ Finished
    /\ result = "success"
    /\ oldBranchName # initial.remoteDefault
    /\ Reported("updateDefaultBranch", "skipped")
    /\ ~issues

CountUpdates(n) ==
    Cardinality({i \in 1..Len(calls) :
                    calls[i].op = "pulls.update" /\ calls[i].pull_number = n})

\* C8: in execute mode no pull request is ever retargeted twice, and once
\* the retarget loop has succeeded every pull request that was open against
\* the old branch when the loop was entered has been retargeted exactly once
\* and is based on the new branch, whatever pages the platform returned, in
\* whatever order, and whatever pull requests were opened meanwhile.
C8_RetargetExactlyOnce ==
    execute =>
        /\ \A n \in PRNumbers : CountUpdates(n) <= 1
        /\ Reported("updatePullRequests", "succeeded") =>
              \A n \in prsAtEntry :
                 CountUpdates(n) = 1 /\ prBase[n] = newBranchName

C8_Witness ==
    /\ execute
    /\ Reported("updatePullRequests", "succeeded")
    /\ Cardinality(prsAtEntry) >= 2
    /\ concurrent
    /\ \A n \in PRNumbers : CountUpdates(n) = 1

(***************************************************************************)
(* Properties of the transformation (SpecTransform)                        *)
(***************************************************************************)
Transformed == tRule # NoRule /\ tPayload # NoPayload

HasReviews(rule) == "required_pull_request_reviews" \in DOMAIN rule

\* C9: for every rule without dismissal allow-list, rules without any review
\* block included, the payload holds no dismissal_restrictions key at all:
\* not null, not undefined, not empty, but absent.
C9_NoDismissalKey ==
    (Transformed /\ ~HasDismissalList(tRule)) =>
        ~PayloadHasDismissalKey(tPayload)

C9_Witness ==
    /\ Transformed
    /\ HasReviews(tRule)
    /\ ~HasDismissalList(tRule)
    /\ DOMAIN tPayload.required_pull_request_reviews =
          {"dismiss_stale_reviews", "require_code_owner_reviews",
           "required_approving_review_count"}

SourceCount(rule) ==
    Get(rule.required_pull_request_reviews, "required_approving_review_count")

\* C10: for every rule with a review block, an unset or zero minimum
\* approver count becomes 1 in the payload, and a positive count is carried
\* through unchanged.
C10_ApproverCount ==
    (Transformed /\ HasReviews(tRule)) =>
        LET count ==
              tPayload.required_pull_request_reviews.required_approving_review_count
        IN  IF SourceCount(tRule) \in {JsUndefined, JsNum(0)}
            THEN count = JsNum(1)
            ELSE count = SourceCount(tRule) /\ count.v > 0

C10_Witness ==
    /\ Transformed
    /\ HasReviews(tRule)
    /\ SourceCount(tRule) = JsNum(0)
    /\ tPayload.required_pull_request_reviews.required_approving_review_count
          = JsNum(1)

(***************************************************************************)
(* Properties of the run: the gate, the exit, failures (Spec)              *)
(***************************************************************************)
StartedSteps == {started[i] : i \in 1..Len(started)}
GateCalls ==
    {i \in 1..Len(calls) : calls[i].op = "search.issuesAndPullRequests"}
MutatingCalls == {i \in 1..Len(calls) : calls[i].op \in MutatingOps}
VerificationReads ==
    {"repos.get", "repos.getBranch", "users.getAuthenticated",
     "repos.getCollaboratorPermissionLevel"}
GateProceeds ==
    /\ Reported("checkWithUser", "succeeded")
    /\ \/ force /\ prompt.via = "logger.log"
       \/ answer = "yes" /\ prompt.via = "prompts"

\* C11: the confirmation step is run at most once in a run, and only after
\* the four verification steps (repository, old branch, new branch, admin)
\* have all succeeded; no mutating request is made before the confirmation
\* has resolved to proceed, by force or by an affirmative answer.
C11_GateOnceBeforeWrites ==
    /\ Cardinality(GateCalls) <= 1
    /\ Cardinality({i \in 1..Len(started) : started[i] = "checkWithUser"}) <= 1
    /\ ("checkWithUser" \in StartedSteps \/ pc = "checkWithUser"
          \/ prompt # NoPrompt \/ answer # "none") =>
          /\ \A i \in 1..4 : Reported(StepOrder[i], "succeeded")
          /\ Len(calls) >= 5
          /\ VerificationReads = OpsOf(SubSeq(calls, 1, 5))
          /\ \A g \in GateCalls : g = 6
    /\ MutatingCalls # {} =>
          /\ GateProceeds
          /\ \A m \in MutatingCalls : \E g \in GateCalls : g < m

C11_Witness ==
    /\ ~force
    /\ answer = "yes"
    /\ Len(calls) >= 8
    /\ GateCalls = {6}
    /\ calls[7].op = "git.getRef"
    /\ calls[8].op = "git.createRef"

\* C12: the process ends with a non-zero exit status whenever the run ends
\* in failure or is aborted by the operator, and with status zero whenever
\* the run completes, a completed dry run included.
C12_ExitStatus ==
    /\ exitStatus # <<>> <=> Finished
    /\ Finished =>
          IF result = "success"
          THEN exitStatus = <<0>>
          ELSE result = "error" /\ exitStatus[1] # 0

C12_Witness ==
    /\ Finished
    /\ caught = UserAborted
    /\ exitStatus # <<>>
    /\ exitStatus[1] # 0

\* a request that takes back what an earlier step of the migration did
Undoes(call) ==
    \/ call.op = "git.deleteRef" /\ call.branch = newBranchName
    \/ call.op = "git.createRef" /\ call.branch = oldBranchName
    \/ call.op = "repos.updateBranchProtection" /\ call.branch = oldBranchName
    \/ call.op = "repos.deleteBranchProtection" /\ call.branch = newBranchName
    \/ call.op = "repos.update" /\ call.default_branch # newBranchName
    \/ call.op = "pulls.update" /\ call.base # newBranchName

\* C13: no compensation. The run never issues an undoing request (it never
\* deletes the new branch, never writes protection back to the old branch,
\* never sets the default branch to anything but the new branch, never
\* retargets a pull request to the old branch), and after a step has failed
\* in execute mode the effect of every step that completed before it is
\* still in place.
C13_NoCompensation ==
    /\ \A i \in 1..Len(calls) : ~Undoes(calls[i])
    /\ (Finished /\ result = "error" /\ execute) =>
          /\ Reported("createNewBranch", "succeeded") =>
                branches[newBranchName] = initial.branches[oldBranchName]
          /\ (Reported("updateDefaultBranch", "succeeded")
                /\ defaultBranch = oldBranchName) =>
                remoteDefault = newBranchName
          /\ (Reported("updateBranchProtection", "succeeded")
                /\ initial.protection[oldBranchName] # NoRule) =>
                /\ protection[oldBranchName] = NoRule
                /\ putProtection[newBranchName] =
                      newProtection(initial.protection[oldBranchName])
          /\ Reported("updatePullRequests", "succeeded") =>
                \A n \in PRNumbers :
                   initial.prBase[n] = oldBranchName =>
                      prBase[n] = newBranchName
          /\ Reported("deleteOldBranch", "succeeded") =>
                branches[oldBranchName] = NoSha

C13_Witness ==
    /\ Finished /\ result = "error" /\ execute
    /\ failedStep = "deleteOldBranch"
    /\ branches[newBranchName] # NoSha
    /\ remoteDefault = newBranchName
    /\ putProtection[newBranchName] # NoPayload
    /\ \E n \in PRNumbers :
          initial.prBase[n] = oldBranchName /\ prBase[n] = newBranchName

\* C14: no retry. Every step is started and reported at most once in a run;
\* once a request has failed, a rate-limited one included, nothing more
\* happens: the states in which the run has completed or failed have no
\* outgoing transition.
C14_NoRetry ==
    [][ /\ pc # "done"
        /\ result = "running"
        /\ \A i, j \in 1..Len(started') :
              started'[i] = started'[j] => i = j
        /\ \A i, j \in 1..Len(report') :
              report'[i].step = report'[j].step => i = j ]_vars

C14_Witness ==
    /\ Finished
    /\ failedStep = "updateDefaultBranch"
    /\ HasStatus(caught, 403)
    /\ Last(calls).op = "repos.update"

FollowUps ==
    {"checkRiffRaffFile", "checkReferencesToOldBranch",
     "openOtherConfigurationIssue"}

\* C15 as stated: a failed code search or issue creation in a follow-up
\* check is reported as failed but does not keep the remaining follow-up
\* checks from being attempted.
C15_Original ==
    (Finished /\ failedStep \in FollowUps) =>
        /\ Reported(failedStep, "failed")
        /\ "checkReferencesToOldBranch" \in StartedSteps
        /\ "openOtherConfigurationIssue" \in StartedSteps

\* C15: a failed code search or issue creation in a follow-up check is
\* reported as failed for that check and is fatal like any other failure:
\* the run ends in error there, and the follow-up checks after it are not
\* attempted.
C15_FollowUpFatal ==
    /\ \A step \in FollowUps : Reported(step, "failed") => failedStep = step
    /\ failedStep \in FollowUps =>
          /\ Finished /\ result = "error"
          /\ Reported(failedStep, "failed")
          /\ Last(started) = failedStep
          /\ \A step \in FollowUps :
                StepIndex(step) > StepIndex(failedStep) =>
                   /\ step \notin StartedSteps
                   /\ ~Reported(step, "succeeded")
                   /\ ~Reported(step, "failed")

C15_Witness ==
    /\ Finished
    /\ failedStep = "checkRiffRaffFile"
    /\ execute /\ issues
    /\ Last(calls).op = "issues.create"
    /\ "checkReferencesToOldBranch" \notin StartedSteps

NewBranchStep == "checkNewBranchDoesNotExist"

\* C17: the check of the new branch succeeds if and only if the lookup
\* answers "not found"; it fails with "branch already exists" when the
\* branch is found, and with the error of the lookup itself, status and
\* message untouched, for any other failure (a rate-limit or server error
\* is never read as "absent").
C17_NewBranchAbsent ==
    NewBranchStep \in StartedSteps =>
        LET absent == initial.branches[newBranchName] = NoSha
            lookupFailed ==
               failedStep = NewBranchStep /\ caught \in TransientFaults
        IN  /\ Reported(NewBranchStep, "succeeded") <=>
                  (absent /\ ~lookupFailed)
            /\ Reported(NewBranchStep, "succeeded") =>
                  failedStep # NewBranchStep
            /\ failedStep = NewBranchStep =>
                  /\ Reported(NewBranchStep, "failed")
                  /\ caught = AlreadyExists \/ caught \in TransientFaults
                  /\ caught = AlreadyExists => ~absent
            /\ (~absent /\ ~lookupFailed) =>
                  failedStep = NewBranchStep /\ caught = AlreadyExists

C17_Witness ==
    /\ failedStep = NewBranchStep
    /\ HasStatus(caught, 403)
    /\ initial.branches[newBranchName] = NoSha
    /\ ~Reported(NewBranchStep, "succeeded")

NotAdmin == Error(<<"You must be a repo admin to complete this migration">>)

\* C18: the admin check succeeds only if the permission level of the
\* authenticated user on the repository is exactly admin; with any other
\* level (write, read, none) the step fails with the "must be a repo admin"
\* error and no later step runs.
C18_AdminOnly ==
    /\ Reported("checkAdmin", "succeeded") => permission = "admin"
    /\ (\E i \in 1..Len(started) : StepIndex(started[i]) > StepIndex("checkAdmin"))
          => permission = "admin"
    /\ OpsOf(calls) \cap MutatingOps # {} => permission = "admin"
    /\ permission \in {"write", "read", "none"} =>
          /\ Finished /\ result = "error"
          /\ failedStep = "checkAdmin"
          /\ caught = NotAdmin
          /\ Reported("checkAdmin", "failed")
          /\ Last(started) = "checkAdmin"
          /\ Last(calls).op = "repos.getCollaboratorPermissionLevel"

C18_Witness ==
    /\ permission = "write"
    /\ Finished
    /\ caught = NotAdmin
    /\ execute

RepoNotFound == Error(<<"Repository not found">>)
RepoNoPermission ==
    Error(<<"You do not have permissions to view this repository">>)

\* the failed read of the repository behind a failure of checkRepoExists
OtherRepoFailures == {f \in TransientFaults : f.status = repoAccess}

PastGate ==
    \E i \in 1..Len(started) :
       StepIndex(started[i]) > StepIndex("checkWithUser")

\* C20: with force the operator is never asked: the message is logged and
\* the run goes on, whatever the number of open pull requests; without
\* force the run goes on only after the prompt has been shown (and answered
\* yes).
C20_ForceSkipsPrompt ==
    /\ force =>
          /\ answer = "none"
          /\ prompt.via # "prompts"
          /\ Reported("checkWithUser", "succeeded") =>
                /\ prompt.via = "logger.log"
                /\ prompt.count = calls[6].total_count
                /\ failedStep # "checkWithUser"
                /\ pc # "checkWithUser"
          /\ failedStep = "checkWithUser" =>
                caught \in TransientFaults /\ prompt = NoPrompt
    /\ ~force =>
          /\ prompt.via # "logger.log"
          /\ Reported("checkWithUser", "succeeded") =>
                prompt.via = "prompts" /\ answer # "none"
          /\ PastGate => prompt.via = "prompts" /\ answer = "yes"

C20_Witness ==
    /\ force
    /\ prompt.via = "logger.log"
    /\ prompt.count >= 2
    /\ PastGate
    /\ answer = "none"

(***************************************************************************)
(* Properties of the Logger (SpecLogger)                                   *)
(***************************************************************************)
LoggerCalled(method) ==
    lastLog'.n = lastLog.n + 1 /\ lastLog'.method = method

\* the message went to the log callback, the spinner was left alone
Delivered(message) ==
    /\ logged' = Append(logged, message)
    /\ spinner' = spinner

\* the message went to the end of the spinner's text, not to the callback
AppendedToSpinner(message) ==
    /\ logged' = logged
    /\ spinner'.set /\ spinner'.isSpinning
    /\ Len(spinner'.text) > Len(spinner.text)
    /\ SubSeq(spinner'.text, 1, Len(spinner.text)) = spinner.text
    /\ Last(spinner'.text).s = message

ThroughLog(message) ==
    IF spinner.set /\ spinner.isSpinning
    THEN AppendedToSpinner(message)
    ELSE Delivered(message)

\* C16: Logger.log hands the message to the log callback exactly when no
\* spinner is set or the spinner is not spinning; when a spinner is spinning
\* the message is appended to the spinner's text and the callback is not
\* called. Logger.debug goes the same way when verbose is true and does
\* nothing otherwise.
C16_LoggerLog ==
    [][ /\ LoggerCalled("log") => ThroughLog(lastLog'.message)
        /\ LoggerCalled("debug") =>
              IF verbose
              THEN ThroughLog(lastLog'.message)
              ELSE logged' = logged /\ spinner' = spinner ]_vars

C16_Witness ==
    /\ lastLog.method = "debug"
    /\ verbose
    /\ spinner.isSpinning
    /\ Len(spinner.text) > 1
    /\ Last(spinner.text).s = lastLog.message
    /\ logged # <<>>

(***************************************************************************)
(* Properties of the migration steps (Spec, SpecDrain)                     *)
(***************************************************************************)
CallsOf(ops) == {i \in 1..Len(calls) : calls[i].op \in ops}

\* C21: in execute mode createNewBranch creates the new branch at the commit
\* that git.getRef, the request just before in the same step, gave as the
\* tip of the old branch; in a dry run the tip is read and no branch is
\* created.
C21_NewBranchAtOldTip ==
    /\ \A i \in CallsOf({"git.createRef"}) :
          /\ execute
          /\ i > 1
          /\ calls[i - 1] = GetRef(oldBranchName)
          /\ calls[i] =
                CreateRef(newBranchName, initial.branches[oldBranchName])
          /\ calls[i].sha # NoSha
    /\ Reported("createNewBranch", "succeeded") =>
          /\ \E i \in 1..Len(calls) : calls[i] = GetRef(oldBranchName)
          /\ IF execute
             THEN /\ CallsOf({"git.createRef"}) # {}
                  /\ branches[newBranchName] =
                        initial.branches[oldBranchName]
             ELSE /\ CallsOf({"git.createRef"}) = {}
                  /\ branches = initial.branches

C21_Witness ==
    /\ execute
    /\ Reported("createNewBranch", "succeeded")
    /\ initial.branches[newBranchName] = NoSha
    /\ branches[newBranchName] = "c1"
    /\ initial.remoteDefault = "develop"

\* C22: updateDefaultBranch sets the repository's default branch to the new
\* name only if the old branch was the default; otherwise the step is
\* reported as skipped, repos.update is not called, and the run goes on to
\* the next step.
C22_DefaultOnlyIfOldWasDefault ==
    /\ \A i \in CallsOf({"repos.update"}) :
          /\ execute
          /\ initial.remoteDefault = oldBranchName
          /\ calls[i] = ReposUpdate(newBranchName)
    /\ "updateDefaultBranch" \in StartedSteps =>
          IF initial.remoteDefault # oldBranchName
          THEN /\ Reported("updateDefaultBranch", "skipped")
               /\ CallsOf({"repos.update"}) = {}
               /\ remoteDefault = initial.remoteDefault
               /\ failedStep # "updateDefaultBranch"
               /\ \/ pc = "updateBranchProtection"
                  \/ "updateBranchProtection" \in StartedSteps
          ELSE /\ ~Reported("updateDefaultBranch", "skipped")
               /\ (execute /\ Reported("updateDefaultBranch", "succeeded")) =>
                     /\ CallsOf({"repos.update"}) # {}
                     /\ remoteDefault = newBranchName

C22_Witness ==
    /\ execute
    /\ Reported("updateDefaultBranch", "skipped")
    /\ "updateBranchProtection" \in StartedSteps
    /\ remoteDefault = "develop"

ProtectionStep == "updateBranchProtection"
ProtectionWrites ==
    CallsOf({"repos.updateBranchProtection", "repos.deleteBranchProtection"})

\* C23: when the read of the old branch's protection answers "branch not
\* protected" or "not available on this tier", updateBranchProtection
\* succeeds without calling updateBranchProtection or deleteBranchProtection
\* and the run goes on; any other failed read fails the step with that
\* error.
C23_ProtectionSkip ==
    /\ \A i \in CallsOf({"repos.getBranchProtection"}) :
          "error" \in DOMAIN calls[i] =>
             IF calls[i].error \in {NotProtected, TierDisallows}
             THEN /\ Reported(ProtectionStep, "succeeded")
                  /\ ProtectionWrites = {}
                  /\ failedStep # ProtectionStep
                  /\ pc # ProtectionStep
                  /\ protection = initial.protection
                  /\ putProtection = [b \in BranchNames |-> NoPayload]
             ELSE /\ Finished /\ result = "error"
                  /\ failedStep = ProtectionStep
                  /\ caught = calls[i].error
                  /\ Reported(ProtectionStep, "failed")
                  /\ ProtectionWrites = {}
    /\ (initial.protection[oldBranchName] = NoRule
          /\ ProtectionStep \in StartedSteps) =>
          /\ ProtectionWrites = {}
          /\ \E i \in CallsOf({"repos.getBranchProtection"}) :
                "error" \in DOMAIN calls[i]

C23_Witness ==
    /\ execute
    /\ \E i \in CallsOf({"repos.getBranchProtection"}) :
          "error" \in DOMAIN calls[i] /\ calls[i].error = TierDisallows
    /\ "updatePullRequests" \in StartedSteps

\* C24: in execute mode the protection of the old branch is removed only
\* after the transformed rule has been written to the new branch (a failed
\* write leaves the old branch protected), and git.deleteRef for the old
\* branch is called only after the old branch's protection has been removed
\* or found absent.
C24_WriteThenRemoveThenDelete ==
    /\ \A d \in CallsOf({"repos.deleteBranchProtection"}) :
          /\ execute
          /\ calls[d] = DeleteProtection(oldBranchName)
          /\ d > 1
          /\ calls[d - 1] =
                PutProtection(newBranchName,
                              newProtection(initial.protection[oldBranchName]))
          /\ putProtection[newBranchName] = calls[d - 1].payload
    /\ (failedStep = ProtectionStep
          /\ Last(calls).op = "repos.updateBranchProtection") =>
          /\ protection[oldBranchName] = initial.protection[oldBranchName]
          /\ protection[oldBranchName] # NoRule
          /\ putProtection[newBranchName] = NoPayload
    /\ \A r \in CallsOf({"git.deleteRef"}) :
          /\ calls[r] = DeleteRef(oldBranchName)
          /\ Reported(ProtectionStep, "succeeded")
          /\ protection[oldBranchName] = NoRule
          /\ IF initial.protection[oldBranchName] # NoRule
             THEN \E d \in CallsOf({"repos.deleteBranchProtection"}) : d < r
             ELSE \E g \in CallsOf({"repos.getBranchProtection"}) :
                     /\ g < r
                     /\ "error" \in DOMAIN calls[g]
                     /\ calls[g].error \in {NotProtected, TierDisallows}

C24_Witness ==
    /\ execute
    /\ initial.protection[oldBranchName] # NoRule
    /\ CallsOf({"git.deleteRef"}) # {}
    /\ branches[oldBranchName] = NoSha
    /\ protection[oldBranchName] = NoRule

PullsStep == "updatePullRequests"

\* C25: the loop lists the first page again after every batch of retargets
\* and leaves only when a listing comes back empty; so when
\* updatePullRequests has succeeded, and when the old branch is deleted, no
\* open pull request has the old branch as base, provided nobody else opened
\* one meanwhile.
C25_DrainUntilEmpty ==
    (execute /\ Reported(PullsStep, "succeeded")) =>
        /\ response = <<>>
        /\ CallsOf({"pulls.list"}) # {}
        /\ \A l \in CallsOf({"pulls.list"}) :
              calls[l] = PullsList(oldBranchName)
        /\ \A u \in CallsOf({"pulls.update"}) :
              \E l \in CallsOf({"pulls.list"}) : l > u
        /\ ~concurrent => OpenPRsWithBase(oldBranchName) = {}

C25_Witness ==
    /\ execute
    /\ Reported(PullsStep, "succeeded")
    /\ ~concurrent
    /\ Cardinality(CallsOf({"pulls.list"})) = 3
    /\ Cardinality(CallsOf({"pulls.update"})) = 3
    /\ CallsOf({"git.deleteRef"}) # {}

InLoop == pc \in {"updatePullRequests", "pulls.update"}

\* a pulls.update that was answered
Retargeted ==
    /\ Len(calls') = Len(calls) + 1
    /\ Last(calls').op = "pulls.update"
    /\ result' = "running"

\* C26: the loop terminates. Every answered pulls.update takes one pull
\* request out of those based on the old branch, a listing is repeated only
\* after a non-empty page all of whose pull requests have been retargeted,
\* and from every start, more than one page of results included, the loop
\* is left after finitely many steps.
C26_DrainTerminates ==
    /\ [][ /\ Retargeted =>
                Cardinality({n \in PRNumbers : prBase'[n] = oldBranchName})
                   = Cardinality(OpenPRsWithBase(oldBranchName)) - 1
           /\ (pc = "pulls.update" /\ pc' = "updatePullRequests") =>
                /\ response # <<>>
                /\ \A i \in 1..Len(response) :
                      prBase[response[i]] = newBranchName ]_vars
    /\ (pc = "updatePullRequests") ~> ~InLoop

C26_Witness ==
    /\ execute
    /\ ~InLoop
    /\ Reported(PullsStep, "succeeded")
    /\ Cardinality({n \in PRNumbers : initial.prBase[n] = oldBranchName})
          > PageSize
    /\ Cardinality(CallsOf({"pulls.list"})) >= 3

\* C27: in a dry run updatePullRequests is reported as done (under the
\* dry-run notice) without calling pulls.list or pulls.update.
C27_DryRunSkipsPulls ==
    ~execute =>
        /\ CallsOf({"pulls.list", "pulls.update"}) = {}
        /\ PullsStep \in StartedSteps =>
              /\ banner
              /\ Reported(PullsStep, "succeeded")
              /\ failedStep # PullsStep
              /\ pc # PullsStep
              /\ prBase = initial.prBase
              /\ response = <<>> /\ page = <<>>

C27_Witness ==
    /\ ~execute
    /\ PullsStep \in StartedSteps
    /\ pc = "deleteOldBranch"
    /\ Cardinality(OpenPRsWithBase(oldBranchName)) >= 2

(***************************************************************************)
(* Properties of the transformation, continued (SpecTransform)             *)
(***************************************************************************)
\* C28: enforce_admins of the payload is true when the rule has admin
\* enforcement enabled and null otherwise; it is never false.
C28_EnforceAdmins ==
    Transformed =>
        /\ tPayload.enforce_admins =
              IF tRule.enforce_admins.enabled THEN JsBool(TRUE) ELSE JsNull
        /\ tPayload.enforce_admins # JsBool(FALSE)

C28_Witness ==
    /\ Transformed
    /\ ~tRule.enforce_admins.enabled
    /\ tPayload.enforce_admins = JsNull

HasStatusChecks(rule) == "required_status_checks" \in DOMAIN rule

\* C29: the payload has a status-check block only if the rule has one, and
\* then the block holds the rule's strict flag and the rule's contexts, the
\* same ones in the same order, and nothing else.
C29_StatusChecks ==
    Transformed =>
        LET out == tPayload.required_status_checks IN
        /\ out # JsNull <=> HasStatusChecks(tRule)
        /\ HasStatusChecks(tRule) =>
              /\ DOMAIN out = {"strict", "contexts"}
              /\ out.strict = tRule.required_status_checks.strict
              /\ out.contexts = tRule.required_status_checks.contexts

C29_Witness ==
    /\ Transformed
    /\ HasStatusChecks(tRule)
    /\ tPayload.required_status_checks =
          [strict |-> FALSE, contexts |-> <<"lint", "ci">>]

\* C30: the payload has a review block only if the rule has one; when the
\* rule has a dismissal allow-list the payload's list holds exactly the
\* logins of the rule's users and the slugs of the rule's teams, and the
\* dismiss_stale_reviews and require_code_owner_reviews flags are those of
\* the rule.
C30_ReviewBlock ==
    Transformed =>
        LET out == tPayload.required_pull_request_reviews IN
        /\ out # JsNull <=> HasReviews(tRule)
        /\ HasReviews(tRule) =>
              LET rv == tRule.required_pull_request_reviews IN
              /\ out.dismiss_stale_reviews = rv.dismiss_stale_reviews
              /\ out.require_code_owner_reviews =
                    rv.require_code_owner_reviews
              /\ HasDismissalList(tRule) =>
                    /\ "dismissal_restrictions" \in DOMAIN out
                    /\ DOMAIN out.dismissal_restrictions = {"users", "teams"}
                    /\ out.dismissal_restrictions.users =
                          [i \in 1..Len(rv.dismissal_restrictions.users) |->
                              rv.dismissal_restrictions.users[i].login]
                    /\ out.dismissal_restrictions.teams =
                          [i \in 1..Len(rv.dismissal_restrictions.teams) |->
                              rv.dismissal_restrictions.teams[i].slug]

C30_Witness ==
    /\ Transformed
    /\ HasDismissalList(tRule)
    /\ tPayload.required_pull_request_reviews.dismissal_restrictions =
          [users |-> <<"bob", "alice">>, teams |-> <<"devs">>]
    /\ tPayload.required_pull_request_reviews.dismiss_stale_reviews

HasRestrictions(rule) == "restrictions" \in DOMAIN rule

\* C31: the payload has a push-restriction block only if the rule has one,
\* and then its users, teams and apps lists hold exactly the logins of the
\* rule's users, the slugs of the rule's teams and the slugs of the rule's
\* apps, in the rule's order, and nothing else.
C31_PushRestrictions ==
    Transformed =>
        LET out == tPayload.restrictions IN
        /\ out # JsNull <=> HasRestrictions(tRule)
        /\ HasRestrictions(tRule) =>
              LET rs == tRule.restrictions IN
              /\ DOMAIN out = {"users", "teams", "apps"}
              /\ out.users = [i \in 1..Len(rs.users) |-> rs.users[i].login]
              /\ out.teams = [i \in 1..Len(rs.teams) |-> rs.teams[i].slug]
              /\ out.apps = [i \in 1..Len(rs.apps) |-> rs.apps[i].slug]

C31_Witness ==
    /\ Transformed
    /\ HasRestrictions(tRule)
    /\ tPayload.restrictions =
          [users |-> <<"alice", "bob">>, teams |-> <<"ops">>,
           apps |-> <<"deploy-bot">>]

HasSignatures(rule) == "required_signatures" \in DOMAIN rule

\* C32: required_linear_history, allow_force_pushes and allow_deletions of
\* the payload are the booleans of the rule's enabled flags;
\* required_signatures is the rule's enabled flag when the rule has the
\* property, and undefined, never false, when the rule has not.
C32_CopiedFlags ==
    Transformed =>
        /\ tPayload.required_linear_history \in BOOLEAN
        /\ tPayload.required_linear_history =
              tRule.required_linear_history.enabled
        /\ tPayload.allow_force_pushes \in BOOLEAN
        /\ tPayload.allow_force_pushes = tRule.allow_force_pushes.enabled
        /\ tPayload.allow_deletions \in BOOLEAN
        /\ tPayload.allow_deletions = tRule.allow_deletions.enabled
        /\ IF HasSignatures(tRule)
           THEN tPayload.required_signatures =
                   tRule.required_signatures.enabled
           ELSE /\ tPayload.required_signatures = JsUndefined
                /\ tPayload.required_signatures # JsBool(FALSE)

C32_Witness ==
    /\ Transformed
    /\ ~HasSignatures(tRule)
    /\ tPayload.required_signatures = JsUndefined
    /\ tPayload.allow_force_pushes
    /\ ~tPayload.allow_deletions

(***************************************************************************)
(* Properties of the follow-up checks and of the configuration (Spec)      *)
(***************************************************************************)
TimesCreated(title) ==
    Cardinality({i \in 1..Len(createdIssues) : createdIssues[i] = title})

\* a search.code for q that was answered with at least one file
Found(q) ==
    \E i \in 1..Len(calls) :
        /\ calls[i].op = "search.code"
        /\ calls[i].q = q
        /\ "total_count" \in DOMAIN calls[i]
        /\ calls[i].total_count > 0

\* C33 as stated: with issues = false no issue is created; with
\* guardian = false neither the riff-raff issue nor the build configuration
\* issue is created; with both flags and execute set the build configuration
\* issue is created by a run that succeeds.
C33_Original ==
    /\ ~issues => createdIssues = <<>>
    /\ ~guardian => TimesCreated(RiffRaffTitle) + TimesCreated(OtherTitle) = 0
    /\ (issues /\ guardian /\ execute /\ result = "success") =>
          TimesCreated(OtherTitle) = 1

\* C33: with issues = false, and in a dry run, no issue is created; with
\* guardian = false the riff-raff search and its issue are left out, while
\* the build configuration issue is still opened, under the title without
\* "other"; with issues and execute set, every run that succeeds has opened
\* the build configuration issue, and the riff-raff and the references issue
\* are opened at most once each and only after their search found a file.
C33_FollowUpGating ==
    /\ (~issues \/ ~execute) => createdIssues = <<>>
    /\ ~guardian =>
          /\ TimesCreated(RiffRaffTitle) = 0
          /\ "checkRiffRaffFile" \in StartedSteps =>
                ~Reported("checkRiffRaffFile", "succeeded")
    /\ createdIssues # <<>> =>
          /\ \A t \in {RiffRaffTitle, ReferencesTitle, OtherTitle} :
                TimesCreated(t) <= 1
          /\ \A i \in 1..Len(createdIssues) :
                createdIssues[i] \in
                   {RiffRaffTitle, ReferencesTitle, OtherTitle}
          /\ TimesCreated(RiffRaffTitle) = 1 =>
                Found("filename:riff-raff.yaml")
          /\ TimesCreated(ReferencesTitle) = 1 => Found(oldBranchName)
    /\ (issues /\ execute /\ result = "success") =>
          /\ TimesCreated(OtherTitle) = 1
          /\ Last(createdIssues) = OtherTitle

C33_Witness ==
    /\ issues /\ execute /\ ~guardian
    /\ result = "success"
    /\ createdIssues =
          <<ReferencesTitle, <<"Update ", "", " build configuration">>>>

\* how strongly a style of the message stands out
Severity(style) ==
    CASE style = "plain" -> 0
      [] style = "bgYellow.black" -> 1
      [] style = "bgRed.white" -> 2

\* C34: the sentence about the open pull requests is styled the more
\* strongly the more there are: bgRed.white above 50, bgYellow.black above
\* 30 and up to 50, plain up to 30; so a higher count never gets a weaker
\* style than a lower one.
C34_Escalates ==
    prompt # NoPrompt =>
        /\ prompt.style =
              IF prompt.count > 50 THEN "bgRed.white"
              ELSE IF prompt.count > 30 THEN "bgYellow.black"
              ELSE "plain"
        /\ \A lower \in 0..prompt.count :
              Severity(prPromptStyle(lower)) <= Severity(prompt.style)

\* a count above 50 shown in the style of a count above 30
C34_Witness ==
    /\ prompt # NoPrompt
    /\ prompt.count = 51
    /\ prompt.style = "bgYellow.black"

\* the owner part or the name part of the argument is empty or missing
EmptyPart ==
    LET parts == Split(repository) IN
    \/ Len(parts) < 2
    \/ parts[1] = <<>>
    \/ parts[2] = <<>>

\* C35: an argument whose owner part or whose name part is empty, "o/", "/r"
\* and an argument without "/" among them, is refused as invalid and no
\* request is ever sent for it.
C35_RejectsEmptyParts ==
    EmptyPart =>
        /\ calls = <<>>
        /\ pc \in {"MasterToMain.run", "done"}
        /\ pc = "done" => result = "error"

\* "/r" was accepted and repos.get was sent with an empty owner
C35_Witness ==
    /\ repository = <<"/", "r">>
    /\ owner = JsString(<<>>)
    /\ repo = JsString(<<"r">>)
    /\ calls # <<>>
    /\ calls[1].op = "repos.get"

\* C36: every run that reaches a mutating step has different old and new
\* branch names: a run started with the two names equal fails at one of the
\* two branch checks at the latest, sends no mutating request and leaves the
\* repository as it was.
C36_NamesDiffer ==
    /\ ("createNewBranch" \in StartedSteps \/ pc = "createNewBranch") =>
          oldBranchName # newBranchName
    /\ oldBranchName = newBranchName =>
          /\ Len(calls) <= 3
          /\ \A i \in 1..Len(calls) : calls[i].op \notin MutatingOps
          /\ Remote = initial
          /\ Finished =>
                /\ result = "error"
                /\ failedStep \in {"checkRepoExists", "checkOldBranchDoesExist",
                                   "checkNewBranchDoesNotExist"}

C36_Witness ==
    /\ oldBranchName = newBranchName
    /\ execute
    /\ Finished
    /\ failedStep = "checkNewBranchDoesNotExist"
    /\ caught = Error(<<"The ", oldBranchName, " branch already exists">>)
    /\ Len(calls) = 3

\* the commit the old branch pointed at when the run started
OriginalTip == initial.branches[oldBranchName]

\* C37: in an execute run that started with the old branch present, at
\* every moment the old branch or the new branch exists and points at the
\* commit the old branch had at the start; git.deleteRef for the old branch
\* is sent only after git.createRef for the new branch has succeeded in the
\* same run.
C37_TipNeverLost ==
    (execute /\ OriginalTip # NoSha) =>
        /\ \/ branches[oldBranchName] = OriginalTip
           \/ branches[newBranchName] = OriginalTip
        /\ branches[oldBranchName] # OriginalTip =>
              /\ branches[oldBranchName] = NoSha
              /\ Reported("createNewBranch", "succeeded")
              /\ \E d \in 1..Len(calls) :
                    /\ calls[d] = DeleteRef(oldBranchName)
                    /\ \E c \in 1..(d - 1) :
                          calls[c] = CreateRef(newBranchName, OriginalTip)
        /\ (pc = "deleteOldBranch" \/ "deleteOldBranch" \in StartedSteps) =>
              /\ Reported("createNewBranch", "succeeded")
              /\ branches[newBranchName] = OriginalTip

C37_Witness ==
    /\ execute
    /\ OriginalTip = "c1"
    /\ branches[oldBranchName] = NoSha
    /\ branches[newBranchName] = "c1"
    /\ Last(calls) = DeleteRef(oldBranchName)

(***************************************************************************)
(* A dry run and an execute run side by side (SpecTwin)                    *)
(***************************************************************************)
\* the two runs were given the same answer wherever both asked
SameAnswers ==
    \A k \in DOMAIN responses \cap DOMAIN dry.responses :
        responses[k] = dry.responses[k]

IsPrefix(s, t) == Len(s) <= Len(t) /\ s = SubSeq(t, 1, Len(s))

\* C38: on the same repository, with the same answers of the remote and of
\* the operator and the same flags but execute, a dry run and an execute run
\* send the same reads through the five checks (repository, old branch, new
\* branch, admin, confirmation) and end them the same way: both go on to
\* createNewBranch, or both fail at the same check with the same error.
C38_DryRunValidates ==
    (dry # NoRun /\ SameAnswers) =>
        /\ IsPrefix(calls, dry.calls)
        /\ IsPrefix(report, dry.report)
        /\ DOMAIN responses \subseteq DOMAIN dry.responses
        /\ ChecksOver =>
              /\ calls = dry.calls
              /\ DOMAIN responses = DOMAIN dry.responses
              /\ pc = dry.pc
              /\ result = dry.result
              /\ caught = dry.caught
              /\ failedStep = dry.failedStep
              /\ report = dry.report
              /\ exitStatus = dry.exitStatus
              /\ \A i \in 1..Len(calls) : calls[i].op \notin MutatingOps

C38_Witness ==
    /\ dry # NoRun
    /\ execute
    /\ SameAnswers
    /\ pc = "done"
    /\ dry.pc = "done"
    /\ ~force
    /\ answer = "no"
    /\ caught = Error(<<"Process aborted">>)
    /\ Len(dry.calls) = 6

(***************************************************************************)
(* Rules without a review block in the protection step (Spec)              *)
(***************************************************************************)
\* the old branch started with a rule that has no review block
BareRuleOnOld ==
    /\ initial.protection[oldBranchName] # NoRule
    /\ ~HasReviews(initial.protection[oldBranchName])

\* C39: updateBranchProtection does not fail on a rule without
\* required_pull_request_reviews: the payload is built, with null for the
\* review block, and in execute mode it is written to the new branch and the
\* protection of the old branch is removed; the step can then fail only
\* because a request failed.
C39_NoReviewBlock ==
    (BareRuleOnOld /\ ProtectionStep \in StartedSteps) =>
        /\ newProtection(initial.protection[oldBranchName]) # TypeError
        /\ newProtection(initial.protection[oldBranchName])
              .required_pull_request_reviews = JsNull
        /\ failedStep = ProtectionStep => caught \in TransientFaults
        /\ failedStep # ProtectionStep =>
              /\ Reported(ProtectionStep, "succeeded")
              /\ execute =>
                    /\ putProtection[newBranchName] # TypeError
                    /\ putProtection[newBranchName]
                          .required_pull_request_reviews = JsNull
                    /\ putProtection[newBranchName] =
                          newProtection(initial.protection[oldBranchName])
                    /\ protection[oldBranchName] = NoRule
                    /\ \E i \in 2..Len(calls) :
                          /\ calls[i] = DeleteProtection(oldBranchName)
                          /\ calls[i - 1].op = "repos.updateBranchProtection"

C39_Witness ==
    /\ execute
    /\ BareRuleOnOld
    /\ Reported(ProtectionStep, "succeeded")
    /\ putProtection[newBranchName].required_pull_request_reviews = JsNull
    /\ protection[oldBranchName] = NoRule
    /\ protection[newBranchName] = NoRule

====
